---- MODULE Spec2Model ----
(***************************************************************************)
(* cosinnus-cloud: the bridge between the platform's group/user events and *)
(* the Nextcloud backend.  The model covers hooks.py (retry executor, name *)
(* generator, event handlers, rename hook) and utils/nextcloud.py (the OCS *)
(* client and its response classification).                                *)
(*                                                                         *)
(* Strings are sequences of one-character strings, so that strip, filter,  *)
(* lower-casing, truncation and "%s %d" formatting are computed, not       *)
(* assumed.  None is the one-element sequence <<"None">>, which is not a   *)
(* string over the alphabet.                                               *)
(***************************************************************************)
EXTENDS Integers, Sequences, FiniteSets, TLC

\* ------------------------------------------------------------------ bounds

\* Number of platform groups.
NumGroups == 2
\* Number of tasks the generic retry specification submits.
NumOps == 2
\* Remote faults (transport or structured errors) the backend may inject in
\* one run of the group specifications.
MaxFaults == 2
\* Events (joins, leaves) raised in one run of the membership specification.
MaxEvents == 3
\* Number of platform users.
NumUsers == 1
\* Groups whose creation signal is sent in one run.
MaxCreated == 1
\* Synchronous requests (saves, generator calls) in one run of the naming
\* specification.
MaxRequests == 3

\* ----------------------------------------------------- program constants

\* hooks.py:26  ThreadPoolExecutor(max_workers=64)
max_workers == 64
\* hooks.py:33  retry_wait = [2, 5, 10, 30, 60, 300]
retry_wait == <<2, 5, 10, 30, 60, 300>>
\* hooks.py:168  filtered_name[:64]
MaxNameLen == 64
\* nextcloud.py:187  statuscode 102: the group already exists
AlreadyExists == 102
\* nextcloud.py:84  OCSException(-1, text) for a body that is not JSON
NotJsonCode == -1
\* nextcloud.py:256  quota -3 means "unlimited"
UnlimitedQuota == -3
\* hooks.py:182  counter = 2
FirstCounter == 2

\* ------------------------------------------------------------------ strings

None == <<"None">>
\* nextcloud_groupfolder_id is an integer or None; the code only tests its
\* truthiness, which 0 and None share.
NoId == 0

Rep(c, n) == [i \in 1..n |-> c]

Digits == {"0", "1", "2", "3", "4", "5", "6", "7", "8", "9"}
LowerLetters == {"a", "b", "d", "e", "f", "g", "i", "l", "m", "n", "o", "p", "r"}
UpperLetters == {"A", "B", "D", "F", "G", "M", "P"}
lowerOf == [c \in UpperLetters |->
              CASE c = "A" -> "a" [] c = "B" -> "b" [] c = "D" -> "d"
                [] c = "F" -> "f" [] c = "G" -> "g" [] c = "M" -> "m"
                [] c = "P" -> "p"]
\* Whitespace that str.strip() removes.
Whitespace == {" ", "\t"}

\* str.lower()
LowerChar(c) == IF c \in UpperLetters THEN lowerOf[c] ELSE c
Lower(s) == [i \in 1..Len(s) |-> LowerChar(s[i])]

\* \w under re.UNICODE: letters, digits and the underscore.
IsWordChar(c) == c \in LowerLetters \cup UpperLetters \cup Digits \cup {"_"}

RECURSIVE LStrip(_)
LStrip(s) == IF s # <<>> /\ Head(s) \in Whitespace THEN LStrip(Tail(s)) ELSE s
RECURSIVE RStrip(_)
RStrip(s) ==
  IF s # <<>> /\ s[Len(s)] \in Whitespace THEN RStrip(SubSeq(s, 1, Len(s) - 1)) ELSE s
\* str.strip()
Strip(s) == RStrip(LStrip(s))

Placeholder == <<"-", "-", "-", "-", "-">>

\* The least element of a non-empty set of positions.
Leftmost(S) == CHOOSE i \in S : \A j \in S : i <= j

\* s.replace(" ", "-----")
RECURSIVE SpacesToPlaceholder(_)
SpacesToPlaceholder(s) ==
  LET at == { i \in 1..Len(s) : s[i] = " " }
  IN IF at = {} THEN s
     ELSE SubSeq(s, 1, Leftmost(at) - 1) \o Placeholder
            \o SpacesToPlaceholder(SubSeq(s, Leftmost(at) + 1, Len(s)))

\* re.sub(r"(?u)[^\w-]", "", s)
KeepWordAndHyphen(s) == SelectSeq(s, LAMBDA c : IsWordChar(c) \/ c = "-")

\* s.replace("-----", " "): leftmost, non-overlapping occurrences.
RECURSIVE PlaceholderToSpaces(_)
PlaceholderToSpaces(s) ==
  LET at == { i \in 1..(Len(s) - 4) : s[i] = "-" /\ SubSeq(s, i, i + 4) = Placeholder }
  IN IF at = {} THEN s
     ELSE SubSeq(s, 1, Leftmost(at) - 1) \o <<" ">>
            \o PlaceholderToSpaces(SubSeq(s, Leftmost(at) + 5, Len(s)))

\* "%d" % n for n >= 0
DigitChar(d) ==
  CASE d = 0 -> "0" [] d = 1 -> "1" [] d = 2 -> "2" [] d = 3 -> "3" [] d = 4 -> "4"
    [] d = 5 -> "5" [] d = 6 -> "6" [] d = 7 -> "7" [] d = 8 -> "8" [] d = 9 -> "9"
RECURSIVE Decimal(_)
Decimal(n) == IF n < 10 THEN <<DigitChar(n)>> ELSE Decimal(n \div 10) \o <<DigitChar(n % 10)>>

\* s[:n]
Truncate(s, n) == SubSeq(s, 1, IF Len(s) < n THEN Len(s) ELSE n)

\* field__istartswith
IStartsWith(v, prefix) ==
  /\ Len(v) >= Len(prefix)
  /\ Lower(SubSeq(v, 1, Len(prefix))) = Lower(prefix)

\* Python truthiness of an optional string field.
Truthy(v) == v # None /\ v # <<>>

\* ---------------------------------------------------------------- state

VARIABLES
  settings,   \* django settings read by the code (fixed after start-up)
  db,         \* the platform's group table: group -> persisted row
  obj,        \* the long-lived in-memory group instances: obj[g] is the one
              \* the creation signal of group g passed, and each closure
              \* of an activation handler holds one of its own (tasks[t].inst)
  members,    \* platform membership: group -> set of users
  active,     \* platform users that are active
  nc,         \* the Nextcloud backend: groups, memberships, folders, users,
              \* and the users that are disabled
  tasks,      \* every task submitted to the executor, in submission order
  faults,     \* remote faults injected so far
  events,     \* events raised so far
  created,    \* groups whose group_object_created signal has been sent
  last        \* the last synchronous call and what it returned or raised

vars == <<settings, db, obj, members, active, nc, tasks, faults, events, created, last>>

Groups == 1..NumGroups
Users == 1..NumUsers

Fields == {"nextcloud_group_id", "nextcloud_groupfolder_name"}

\* get_cosinnus_group_model().TYPE_SOCIETY and TYPE_PROJECT
GroupType(g) == IF g % 2 = 0 THEN "society" ELSE "project"

\* A group row before the cloud app has touched it.
NewRow(g, n) ==
  [name |-> n, type |-> GroupType(g), cloud_enabled |-> TRUE,
   nextcloud_group_id |-> None, nextcloud_groupfolder_name |-> None,
   nextcloud_groupfolder_id |-> NoId]

\* group.save(update_fields=fs): only the named columns are written.
SaveFields(dbv, g, o, fs) ==
  [dbv EXCEPT ![g] = [f \in DOMAIN dbv[g] |-> IF f \in fs THEN o[f] ELSE dbv[g][f]]]

\* --------------------------------------------------------- name generator

\* cosinnus.utils.functions.is_number on a filtered name.
is_number(s) == s # <<>> /\ \A i \in 1..Len(s) : s[i] \in Digits

\* The filter without the branch of hooks.py:165-166: an empty or numeric
\* name is left as it is.
FilteredNameWithoutFallback(o) ==
  LET stripped == SpacesToPlaceholder(Strip(o.name))
      kept == KeepWordAndHyphen(stripped)
      filtered == Strip(PlaceholderToSpaces(kept))
      named ==
        IF settings.PREFIX_GROUP_FOLDERS
        THEN (IF o.type = "society" THEN <<"G", " ", "-", " ">>
              ELSE <<"P", " ", "-", " ">>) \o <<" ">> \o filtered
        ELSE filtered
  IN Truncate(named, MaxNameLen)

\* hooks.py:155-168: the filtered, prefixed and truncated candidate.
FilteredName(o) ==
  LET stripped == SpacesToPlaceholder(Strip(o.name))
      kept == KeepWordAndHyphen(stripped)
      filtered == Strip(PlaceholderToSpaces(kept))
      named ==
        IF settings.PREFIX_GROUP_FOLDERS
        THEN (IF o.type = "society" THEN <<"G", " ", "-", " ">>
              ELSE <<"P", " ", "-", " ">>) \o <<" ">> \o filtered
        ELSE IF filtered = <<>> \/ is_number(filtered)
             THEN <<"F", "o", "l", "d", "e", "r">> \o filtered
             ELSE filtered
  IN Truncate(named, MaxNameLen)

\* all_names without the lower-casing at hooks.py:177.
AllNamesAsStored(dbv, g, field, filtered_name) ==
  { dbv[h][field] :
      h \in { k \in Groups \ {g} :
                /\ dbv[k][field] # None
                /\ IStartsWith(dbv[k][field], filtered_name) } }
    \cup { <<"a", "d", "m", "i", "n">> }

\* all_names without the query of hooks.py:171-176: the protected name only.
AllNamesWithoutQuery(dbv, g, field, filtered_name) ==
  { <<"a", "d", "m", "i", "n">> }

\* hooks.py:171-180: the lower-cased values of the other groups that start
\* with the candidate, and the protected name.
AllNames(dbv, g, field, filtered_name) ==
  { Lower(dbv[h][field]) :
      h \in { k \in Groups \ {g} :
                /\ dbv[k][field] # None
                /\ IStartsWith(dbv[k][field], filtered_name) } }
    \cup { <<"a", "d", "m", "i", "n">> }

\* The loop of hooks.py:184-186 as a single test: the first suffix is taken
\* without looking whether it is free.
UniquifyOnce(filtered_name, all_names, unique_name, counter) ==
  IF Lower(unique_name) \in all_names
  THEN filtered_name \o <<" ">> \o Decimal(counter)
  ELSE unique_name

\* hooks.py:182-186: the while loop, from the given counter.
RECURSIVE Uniquify(_, _, _, _)
Uniquify(filtered_name, all_names, unique_name, counter) ==
  IF Lower(unique_name) \in all_names
  THEN Uniquify(filtered_name, all_names,
                filtered_name \o <<" ">> \o Decimal(counter), counter + 1)
  ELSE unique_name

\* hooks.py:155-186: the unique name for `field` of instance o of group g.
UniqueName(dbv, g, o, field) ==
  LET filtered_name == FilteredName(o)
  IN Uniquify(filtered_name, AllNames(dbv, g, field, filtered_name),
              filtered_name, FirstCounter)

\* ------------------------------------------------------------ OCS client

\* What the backend may answer instead of its genuine response.
FaultTags == {"http_error", "not_json", "ocs_failure"}
\* The HTTP response the client sees: the genuine one, a fault, or (to a
\* rename only) status ok with data that is not true.
Respond(f, genuine) ==
  CASE f = "none" -> genuine
    [] f = "http_error" ->
         [http_ok |-> FALSE, json |-> FALSE, status |-> "failure",
          statuscode |-> 0, data |-> FALSE]
    [] f = "not_json" ->
         [http_ok |-> TRUE, json |-> FALSE, status |-> "failure",
          statuscode |-> 0, data |-> FALSE]
    [] f = "ocs_failure" ->
         [http_ok |-> TRUE, json |-> TRUE, status |-> "failure",
          statuscode |-> 996, data |-> FALSE]
    [] f = "not_true" ->
         [http_ok |-> TRUE, json |-> TRUE, status |-> "ok",
          statuscode |-> 100, data |-> FALSE]

OkResponse(d) ==
  [http_ok |-> TRUE, json |-> TRUE, status |-> "ok", statuscode |-> 100, data |-> d]
FailureResponse(code) ==
  [http_ok |-> TRUE, json |-> TRUE, status |-> "failure", statuscode |-> code,
   data |-> FALSE]

\* nextcloud.py:73-89.  raised = "" means the OCSResponse was returned.
response_or_raise(r) ==
  IF ~r.http_ok
  THEN [raised |-> "HTTPError", statuscode |-> 0, data |-> FALSE]
  ELSE IF ~r.json
  THEN [raised |-> "OCSException", statuscode |-> NotJsonCode, data |-> FALSE]
  ELSE IF r.status = "ok"
  THEN [raised |-> "", statuscode |-> r.statuscode, data |-> r.data]
  ELSE [raised |-> "OCSException", statuscode |-> r.statuscode, data |-> FALSE]

\* The backend's group-folder rename endpoint: it answers true and moves the
\* mount point of an existing folder, false for a folder it does not know.
NcRename(ncv, folder_id, new_name) ==
  IF folder_id \in DOMAIN ncv.folders
  THEN [resp |-> OkResponse(TRUE),
        nc |-> [ncv EXCEPT !.folders[folder_id].mount_point = new_name]]
  ELSE [resp |-> OkResponse(FALSE), nc |-> ncv]

\* nextcloud.py:269-279
rename_group_and_group_folder(ncv, folder_id, new_name, f) ==
  LET genuine == NcRename(ncv, folder_id, new_name)
      r == response_or_raise(Respond(f, genuine.resp))
  IN [raised |-> r.raised, statuscode |-> r.statuscode,
      result |-> r.raised = "" /\ r.data = TRUE,
      nc |-> IF f = "none" THEN genuine.nc ELSE ncv]

\* ------------------------------------------------------------ rename hook

\* What a run of the post_save receiver, or of a function that saves, left
\* behind: the table, the backend, the instance, the exception that escaped
\* (raised), the name the backend was asked to rename the folder to
\* (called_with, None without a call), what that call returned (result),
\* and the numbers of rename calls and of receiver invocations.
Outcome(dbv, ncv, o, raised, called_with, renames, hooks) ==
  [db |-> dbv, nc |-> ncv, obj |-> o, raised |-> raised,
   called_with |-> called_with, result |-> FALSE,
   renames |-> renames, hooks |-> hooks]

\* hooks.py:239-241: the rename for new_name returned True, the instance was
\* saved, and `inner` is what the receiver run by that save left behind.
Confirmed(inner, new_name) ==
  [inner EXCEPT !.called_with = new_name, !.result = TRUE,
                !.renames = @ + 1, !.hooks = @ + 1]

RECURSIVE rename_nextcloud_groupfolder_on_group_rename(_, _, _, _, _)

\* The receiver saving the generated folder name whatever the rename call
\* returned (the test at hooks.py:239 left out).
SaveWhateverReturned(dbv, ncv, o1, g, f, new_name, rn) ==
  IF rn.raised # ""
  THEN Outcome(dbv, ncv, o1, rn.raised, new_name, 1, 1)
  ELSE [Outcome(SaveFields(dbv, g, o1, {"nextcloud_groupfolder_name"}), rn.nc, o1,
                "", new_name, 1, 1) EXCEPT !.result = rn.result]

\* hooks.py:236-242: the receiver after the rename call answered rn, the
\* instance o1 carrying the generated name.  An exception leaves the
\* receiver at once; True saves the folder name (which runs the receiver
\* again) and returns; anything else reloads the instance.
OnRenameResult(dbv, ncv, o1, g, f, new_name, rn) ==
  IF rn.raised # ""
  THEN Outcome(dbv, ncv, o1, rn.raised, new_name, 1, 1)
  ELSE IF rn.result = TRUE
  THEN Confirmed(rename_nextcloud_groupfolder_on_group_rename(
                   SaveFields(dbv, g, o1, {"nextcloud_groupfolder_name"}),
                   rn.nc, o1, g, f),
                 new_name)
  ELSE Outcome(dbv, rn.nc, dbv[g], "", new_name, 1, 1)

\* hooks.py:233-242: new_name is the folder name just generated on the
\* instance (save=False, force_generate=True).
OnGeneratedName(dbv, ncv, o, g, f, new_name) ==
  IF new_name # o.nextcloud_groupfolder_name
  THEN OnRenameResult(dbv, ncv, [o EXCEPT !.nextcloud_groupfolder_name = new_name],
                      g, f, new_name,
                      rename_group_and_group_folder(ncv, o.nextcloud_groupfolder_id,
                                                    new_name, f))
  ELSE Outcome(dbv, ncv, dbv[g], "", None, 0, 1)

\* hooks.py:224-246: the post_save receiver, run on instance o of group g
\* right after a save left the table as dbv.  f is the backend's answer to
\* a rename call, should the receiver make one.
rename_nextcloud_groupfolder_on_group_rename(dbv, ncv, o, g, f) ==
  IF /\ o.cloud_enabled
     /\ Truthy(o.nextcloud_group_id)
     /\ Truthy(o.nextcloud_groupfolder_name)
     /\ o.nextcloud_groupfolder_id # NoId
  THEN OnGeneratedName(dbv, ncv, o, g, f,
                       UniqueName(dbv, g, o, "nextcloud_groupfolder_name"))
  ELSE Outcome(dbv, ncv, o, "", None, 0, 1)

\* A save whose post_save signal reaches the receiver twice, as it would
\* were two of the connections of hooks.py:244-246 made for one sender:
\* the second run starts from what the first left behind.
SaveSignalsTwice(dbv, ncv, o, g, fs, f) ==
  LET a == rename_nextcloud_groupfolder_on_group_rename(SaveFields(dbv, g, o, fs),
                                                        ncv, o, g, f)
      b == rename_nextcloud_groupfolder_on_group_rename(a.db, a.nc, a.obj, g, f)
  IN IF a.raised # "" THEN a
     ELSE [b EXCEPT !.called_with = IF a.called_with # None THEN a.called_with ELSE @,
                    !.result = a.result \/ @,
                    !.renames = a.renames + @,
                    !.hooks = a.hooks + @]

\* group.save(update_fields=fs) followed by the post_save receiver.
Save(dbv, ncv, o, g, fs, f) ==
  rename_nextcloud_groupfolder_on_group_rename(SaveFields(dbv, g, o, fs), ncv, o, g, f)

\* Nothing was saved: the outcome of a function that only touched o.
NotSaved(dbv, ncv, o) == Outcome(dbv, ncv, o, "", None, 0, 0)

\* The outcome of a generator call, with the value it returns.
Returning(outcome, ret) ==
  [f \in DOMAIN outcome \cup {"ret"} |-> IF f = "ret" THEN ret ELSE outcome[f]]

\* The generator saving with a plain group.save(), every column of the
\* instance and not the generated one only.
SetAndSaveAll(dbv, ncv, o, g, field, save, f, unique_name) ==
  Returning(IF save
            THEN Save(dbv, ncv, [o EXCEPT ![field] = unique_name], g, DOMAIN o, f)
            ELSE NotSaved(dbv, ncv, [o EXCEPT ![field] = unique_name]),
            unique_name)

\* hooks.py:188-191: set the generated name on the instance, save it if
\* asked to, and return it.
SetAndSave(dbv, ncv, o, g, field, save, f, unique_name) ==
  Returning(IF save
            THEN Save(dbv, ncv, [o EXCEPT ![field] = unique_name], g, {field}, f)
            ELSE NotSaved(dbv, ncv, [o EXCEPT ![field] = unique_name]),
            unique_name)

\* The generator without the early return at hooks.py:152-153: it computes a
\* name even when the instance holds one.
generate_ignoring_stored_value(dbv, ncv, o, g, field, save, force_generate, f) ==
  SetAndSave(dbv, ncv, o, g, field, save, f, UniqueName(dbv, g, o, field))

\* hooks.py:141-191
generate_group_nextcloud_field(dbv, ncv, o, g, field, save, force_generate, f) ==
  IF Truthy(o[field]) /\ ~force_generate
  THEN Returning(NotSaved(dbv, ncv, o), o[field])
  ELSE SetAndSave(dbv, ncv, o, g, field, save, f, UniqueName(dbv, g, o, field))

\* --------------------------------------------------------------- backend

admin == <<"admin", 0>>
\* hooks.py:64-65
get_nc_user_id(u) == <<"wechange-", u>>

\* POST /cloud/groups: 102 when the group exists, else the group is added.
NcCreateGroup(ncv, groupid) ==
  IF groupid \in ncv.groups
  THEN [resp |-> FailureResponse(AlreadyExists), nc |-> ncv]
  ELSE [resp |-> OkResponse(<<>>), nc |-> [ncv EXCEPT !.groups = @ \cup {groupid}]]

\* GET /apps/groupfolders/folders: every folder, by id.
NcListFolders(ncv) == [resp |-> OkResponse(ncv.folders), nc |-> ncv]

\* POST /apps/groupfolders/folders: a new folder with the next id; the
\* backend does not refuse a mount point that is already in use.
NcCreateFolder(ncv, name) ==
  LET id == Len(ncv.folders) + 1
  IN [resp |-> OkResponse([id |-> id]),
      nc |-> [ncv EXCEPT !.folders =
                Append(@, [mount_point |-> name, groups |-> {},
                           quota |-> UnlimitedQuota])]]

\* POST /apps/groupfolders/folders/{id}/groups
NcGrantGroup(ncv, folder_id, group_id) ==
  IF folder_id \in DOMAIN ncv.folders
  THEN [resp |-> OkResponse(TRUE),
        nc |-> [ncv EXCEPT !.folders[folder_id].groups = @ \cup {group_id}]]
  ELSE [resp |-> FailureResponse(996), nc |-> ncv]

\* POST /apps/groupfolders/folders/{id}/quota
NcSetQuota(ncv, folder_id, quota) ==
  IF folder_id \in DOMAIN ncv.folders
  THEN [resp |-> OkResponse(TRUE),
        nc |-> [ncv EXCEPT !.folders[folder_id].quota = quota]]
  ELSE [resp |-> FailureResponse(996), nc |-> ncv]

\* PUT /cloud/users/{id}/disable: 101 for an unknown user; disabling a
\* disabled user is accepted.
NcDisableUser(ncv, userid) ==
  IF userid \notin ncv.users THEN [resp |-> FailureResponse(101), nc |-> ncv]
  ELSE [resp |-> OkResponse(<<>>), nc |-> [ncv EXCEPT !.disabled = @ \cup {userid}]]

\* PUT /cloud/users/{id}/enable
NcEnableUser(ncv, userid) ==
  IF userid \notin ncv.users THEN [resp |-> FailureResponse(101), nc |-> ncv]
  ELSE [resp |-> OkResponse(<<>>), nc |-> [ncv EXCEPT !.disabled = @ \ {userid}]]

\* POST /cloud/users/{id}/groups: 102 for an unknown group, 103 for an
\* unknown user; adding a member twice is accepted.
NcAddUser(ncv, userid, groupid) ==
  IF groupid \notin ncv.groups THEN [resp |-> FailureResponse(102), nc |-> ncv]
  ELSE IF userid \notin ncv.users THEN [resp |-> FailureResponse(103), nc |-> ncv]
  ELSE [resp |-> OkResponse(<<>>),
        nc |-> [ncv EXCEPT !.members = @ \cup {<<userid, groupid>>}]]

\* DELETE /cloud/users/{id}/groups: removing a non-member is accepted.
NcRemoveUser(ncv, userid, groupid) ==
  IF groupid \notin ncv.groups THEN [resp |-> FailureResponse(102), nc |-> ncv]
  ELSE IF userid \notin ncv.users THEN [resp |-> FailureResponse(103), nc |-> ncv]
  ELSE [resp |-> OkResponse(<<>>),
        nc |-> [ncv EXCEPT !.members = @ \ {<<userid, groupid>>}]]

\* One remote call: the backend acts and answers (f = "none"), or the
\* answer is a fault and the backend state is left alone.
Call(f, genuine, ncv) ==
  LET r == response_or_raise(Respond(f, genuine.resp))
  IN [raised |-> r.raised, statuscode |-> r.statuscode, data |-> r.data,
      nc |-> IF f = "none" THEN genuine.nc ELSE ncv]

\* nextcloud.py:126-133
disable_user(ncv, userid, f) == Call(f, NcDisableUser(ncv, userid), ncv)

\* nextcloud.py:135-142
enable_user(ncv, userid, f) == Call(f, NcEnableUser(ncv, userid), ncv)

\* nextcloud.py:154-162
add_user_to_group(ncv, userid, groupid, f) == Call(f, NcAddUser(ncv, userid, groupid), ncv)

\* nextcloud.py:165-173
remove_user_from_group(ncv, userid, groupid, f) ==
  Call(f, NcRemoveUser(ncv, userid, groupid), ncv)

\* create_group swallowing every OCSException, not only code 102.
create_group_swallows_all(ncv, groupid, f) ==
  LET c == Call(f, NcCreateGroup(ncv, groupid), ncv)
  IN IF c.raised = "OCSException"
     THEN [raised |-> "", statuscode |-> c.statuscode, ret |-> "None", nc |-> c.nc]
     ELSE [raised |-> c.raised, statuscode |-> c.statuscode,
           ret |-> IF c.raised = "" THEN "OCSResponse" ELSE "", nc |-> c.nc]

\* nextcloud.py:176-190.  ret is "None" when the 102 was swallowed.
create_group(ncv, groupid, f) ==
  LET c == Call(f, NcCreateGroup(ncv, groupid), ncv)
  IN IF c.raised = "OCSException" /\ c.statuscode = AlreadyExists
     THEN [raised |-> "", statuscode |-> c.statuscode, ret |-> "None", nc |-> c.nc]
     ELSE [raised |-> c.raised, statuscode |-> c.statuscode,
           ret |-> IF c.raised = "" THEN "OCSResponse" ELSE "", nc |-> c.nc]

\* -------------------------------------------------------- retry executor

NoLog == [retrying |-> 0, giving_up |-> 0, cb_exception |-> 0, cb_debug |-> 0]

\* nextcloud.create_group_folder submitted as it is, with its default
\* raise_on_existing_name=True (nextcloud.py:194).
FolderFn == "create_group_folder"

\* An attempt that enters initialize_nextcloud_for_group at the folder call
\* instead of at its first statement.
EntryAtFolder(fn) ==
  IF fn \in {"initialize_nextcloud_for_group", "_conurrent_wrap"} THEN "list_folders"
  ELSE IF fn = FolderFn THEN "list_folders"
  ELSE "call"

\* First statement of each submitted function.
Entry(fn) ==
  IF fn \in {"initialize_nextcloud_for_group", "_conurrent_wrap"} THEN "generate"
  ELSE IF fn = FolderFn THEN "list_folders"
  ELSE "call"

\* hooks.py:61: executor.submit(exec_with_retry); the task waits for a worker.
\* inst names the group instance the submitted function holds, and issued
\* lists the requests the running attempt has sent, each with whether the
\* call that sent it returned.
NewTask(fn, g, userid, groupid) ==
  [fn |-> fn, group |-> g, userid |-> userid, groupid |-> groupid,
   state |-> "queued", pc |-> "", retry_wait |-> <<>>, slept |-> <<>>,
   calls |-> 0, failed |-> 0, folder_id |-> NoId, uncaught |-> FALSE,
   inst |-> g, issued |-> <<>>, log |-> NoLog]

\* A submit that makes the first attempt itself, on the caller's thread,
\* instead of handing the function to the executor.
submit_and_run(ts, fn, g, userid, groupid) ==
  Append(ts, [NewTask(fn, g, userid, groupid) EXCEPT
                !.state = "running", !.pc = Entry(fn), !.calls = 1,
                !.retry_wait = retry_wait])

\* hooks.py:29-61
submit_with_retry(ts, fn, g, userid, groupid) ==
  Append(ts, NewTask(fn, g, userid, groupid))

\* hooks.py:68-74: the done-callback logs the outcome and lets nothing out.
nc_req_callback(task) ==
  IF task.state = "raised"
  THEN [task EXCEPT !.log.cb_exception = @ + 1]
  ELSE [task EXCEPT !.log.cb_debug = @ + 1]

\* hooks.py:36: fn(*args, **kwargs) is entered.
BeginAttempt(task) ==
  [task EXCEPT !.state = "running", !.pc = Entry(task.fn), !.calls = @ + 1,
               !.issued = <<>>]

\* hooks.py:36: fn returned; the future completes and its callback runs.
OnReturn(task) == nc_req_callback([task EXCEPT !.state = "returned", !.pc = ""])

\* exec_with_retry giving up one delay early (the last delay is never slept).
OnExceptionGivesUpEarly(task) ==
  IF Len(task.retry_wait) > 1
  THEN [task EXCEPT !.retry_wait = Tail(@), !.slept = Append(@, Head(task.retry_wait)),
                    !.state = "sleeping", !.pc = "", !.failed = @ + 1,
                    !.log.retrying = @ + 1]
  ELSE nc_req_callback([task EXCEPT !.state = "raised", !.pc = "", !.failed = @ + 1,
                                    !.log.giving_up = @ + 1])

\* exec_with_retry without the `continue`: after the pause the function
\* falls out of the loop and the future completes with None.
OnExceptionFallsThrough(task) ==
  IF task.retry_wait # <<>>
  THEN nc_req_callback(
         [task EXCEPT !.retry_wait = Tail(@), !.slept = Append(@, Head(task.retry_wait)),
                      !.state = "returned", !.pc = "", !.failed = @ + 1,
                      !.log.retrying = @ + 1])
  ELSE nc_req_callback([task EXCEPT !.state = "raised", !.pc = "", !.failed = @ + 1,
                                    !.log.giving_up = @ + 1])

\* hooks.py:37-59: fn raised; pop a delay and sleep, or give up and re-raise
\* into the future, whose callback then runs.
OnException(task) ==
  IF task.retry_wait # <<>>
  THEN [task EXCEPT !.retry_wait = Tail(@), !.slept = Append(@, Head(task.retry_wait)),
                    !.state = "sleeping", !.pc = "", !.failed = @ + 1,
                    !.log.retrying = @ + 1]
  ELSE nc_req_callback([task EXCEPT !.state = "raised", !.pc = "", !.failed = @ + 1,
                                    !.log.giving_up = @ + 1])

TaskIds == 1..Len(tasks)

\* An executor whose workers are given back during the pause of
\* hooks.py:49: only the tasks inside fn hold one.
InFlightRunning == { t \in TaskIds : tasks[t].state = "running" }

\* The tasks that hold a worker thread: exec_with_retry runs on it from the
\* first attempt to the last, the pauses included.
InFlight == { t \in TaskIds : tasks[t].state \in {"running", "sleeping"} }
Finished(t) == tasks[t].state \in {"returned", "raised"}

\* exec_with_retry with retry_wait made once, outside the closure: a task
\* that starts finds what the tasks before it have left of the list.
StartTaskOnSharedSchedule(t) ==
  /\ tasks[t].state = "queued"
  /\ Cardinality(InFlight) < max_workers
  /\ \E left \in { w \in {retry_wait} \cup { tasks[u].retry_wait : u \in
                        { k \in TaskIds : tasks[k].state # "queued" } } :
                    \A u \in TaskIds : tasks[u].state # "queued" =>
                                          Len(w) <= Len(tasks[u].retry_wait) } :
       tasks' = [tasks EXCEPT ![t] = BeginAttempt([@ EXCEPT !.retry_wait = left])]
  /\ UNCHANGED <<settings, created, db, obj, members, active, nc, faults, events, last>>

\* A worker takes the task off the queue: exec_with_retry starts (hooks.py:
\* 31-34) and makes the first attempt.
StartTask(t) ==
  /\ tasks[t].state = "queued"
  /\ Cardinality(InFlight) < max_workers
  /\ tasks' = [tasks EXCEPT ![t] = BeginAttempt([@ EXCEPT !.retry_wait = retry_wait])]
  /\ UNCHANGED <<settings, created, db, obj, members, active, nc, faults, events, last>>

\* hooks.py:49-50: sleep(delay) is over; the loop makes the next attempt.
WakeTask(t) ==
  /\ tasks[t].state = "sleeping"
  /\ tasks' = [tasks EXCEPT ![t] = BeginAttempt(@)]
  /\ UNCHANGED <<settings, created, db, obj, members, active, nc, faults, events, last>>

Running(t, fn, pc) ==
  /\ tasks[t].state = "running"
  /\ tasks[t].fn = fn
  /\ tasks[t].pc = pc

\* The attempt of `task` sent request `call`; raised is the exception the
\* call ended with, "" when it returned.
Issue(task, call, raised) ==
  [task EXCEPT !.issued = Append(@, [call |-> call, ok |-> raised = ""])]

\* A fault may be injected only into a call that is made, and within budget.
Inject(f, called) ==
  /\ f # "none" => called /\ faults < MaxFaults
  /\ faults' = IF f # "none" THEN faults + 1 ELSE faults

AnyFault == {"none"} \cup FaultTags

Injected(f) == IF f # "none" THEN 1 ELSE 0

\* The same for a step that makes a call and then saves the group, which
\* runs the rename hook and so may make a second call.
Inject2(f, f2, called2) ==
  /\ f2 # "none" => called2
  /\ faults + Injected(f) + Injected(f2) <= MaxFaults
  /\ faults' = faults + Injected(f) + Injected(f2)

\* ------------------------------------------- tasks with one remote call

\* An operation of no further interest to the model returns.
OpReturns(t) ==
  /\ Running(t, "op", "call")
  /\ tasks' = [tasks EXCEPT ![t] = OnReturn(@)]
  /\ UNCHANGED <<settings, created, db, obj, members, active, nc, faults, events, last>>

\* The operation raises.
OpRaises(t) ==
  /\ Running(t, "op", "call")
  /\ tasks' = [tasks EXCEPT ![t] = OnException(@)]
  /\ UNCHANGED <<settings, created, db, obj, members, active, nc, faults, events, last>>

\* nextcloud.add_user_to_group run by a worker.
RunAddUser(t) ==
  /\ Running(t, "add_user_to_group", "call")
  /\ \E f \in AnyFault :
       LET c == add_user_to_group(nc, tasks[t].userid, tasks[t].groupid, f) IN
       /\ Inject(f, TRUE)
       /\ nc' = c.nc
       /\ tasks' = [tasks EXCEPT ![t] = IF c.raised = "" THEN OnReturn(@)
                                        ELSE OnException(@)]
  /\ UNCHANGED <<settings, created, db, obj, members, active, events, last>>

\* nextcloud.remove_user_from_group run by a worker.
RunRemoveUser(t) ==
  /\ Running(t, "remove_user_from_group", "call")
  /\ \E f \in AnyFault :
       LET c == remove_user_from_group(nc, tasks[t].userid, tasks[t].groupid, f) IN
       /\ Inject(f, TRUE)
       /\ nc' = c.nc
       /\ tasks' = [tasks EXCEPT ![t] = IF c.raised = "" THEN OnReturn(@)
                                        ELSE OnException(@)]
  /\ UNCHANGED <<settings, created, db, obj, members, active, events, last>>

\* ------------------------------------- initialize_nextcloud_for_group

InitFn == "initialize_nextcloud_for_group"
\* hooks.py:208-215: the closure the activation handler submits.
WrapFn == "_conurrent_wrap"

\* Task t is inside initialize_nextcloud_for_group, or inside
\* create_group_folder submitted on its own, at statement pc.
RunningInit(t, pc) ==
  /\ tasks[t].state = "running"
  /\ tasks[t].fn \in {InitFn, WrapFn, FolderFn}
  /\ tasks[t].pc = pc

\* create_group_folder with a default of raise_on_existing_name=False.
return_on_existing_name(task) == FALSE

\* nextcloud.py:194: the flag the task's caller passes; hooks.py:268 passes
\* False, a bare call leaves the default.
raise_on_existing_name(task) == task.fn = FolderFn

\* create_group_folder returns: to hooks.py:270 when initialization called
\* it, to the executor when it was submitted on its own.
FolderReturns(task) ==
  IF task.fn = FolderFn THEN OnReturn(task) ELSE [task EXCEPT !.pc = "add_admin"]

\* hooks.py:251-253: both generators without saving, then one save of the
\* two fields (which runs the rename hook).
generate_and_save(dbv, ncv, o, g, f) ==
  LET a == generate_group_nextcloud_field(dbv, ncv, o, g, "nextcloud_group_id",
                                          FALSE, FALSE, "none")
      b == generate_group_nextcloud_field(dbv, ncv, a.obj, g,
                                          "nextcloud_groupfolder_name",
                                          FALSE, FALSE, "none")
  IN Save(dbv, ncv, b.obj, g, Fields, f)

\* hooks.py:249-259
InitGenerate(t) ==
  /\ RunningInit(t, "generate")
  /\ \E f \in AnyFault :
       \E g \in {tasks[t].group}, i \in {tasks[t].inst} :
       \E s \in {generate_and_save(db, nc, obj[i], g, f)} :
          /\ Inject(f, s.renames > 0)
          /\ db' = s.db
          /\ nc' = s.nc
          /\ obj' = [obj EXCEPT ![i] = s.obj]
          /\ tasks' = [tasks EXCEPT ![t] =
                         IF s.raised = "" THEN [@ EXCEPT !.pc = "create_group"]
                         ELSE OnException(@)]
  /\ UNCHANGED <<settings, created, members, active, events, last>>

\* hooks.py:262
InitCreateGroup(t) ==
  /\ RunningInit(t, "create_group")
  /\ \E f \in AnyFault :
       LET g == tasks[t].group
           i == tasks[t].inst
           groupid == obj[i].nextcloud_group_id
           c == create_group(nc, groupid, f)
       IN /\ Inject(f, TRUE)
          /\ nc' = c.nc
          /\ last' = [fn |-> "create_group", groupid |-> groupid,
                       response |-> Respond(f, NcCreateGroup(nc, groupid).resp),
                       raised |-> c.raised, statuscode |-> c.statuscode,
                       ret |-> c.ret]
          /\ tasks' = [tasks EXCEPT ![t] =
                         IF c.raised = ""
                         THEN [Issue(@, "create_group", "") EXCEPT !.pc = "list_folders"]
                         ELSE OnException(Issue(@, "create_group", c.raised))]
  /\ UNCHANGED <<settings, created, db, obj, members, active, events>>

\* create_group_folder without the check for a taken name: no listed folder
\* counts as the group's.
no_same_name_entries(data, name) == {}

\* nextcloud.py:207: the ids of the listed folders mounted at `name`.
same_name_entries(data, name) ==
  IF data = <<>> THEN {} ELSE { i \in DOMAIN data : data[i].mount_point = name }

\* same_name_entries[0]: the listing is ordered by id.
FirstEntry(ids) == CHOOSE i \in ids : \A j \in ids : i <= j

\* nextcloud.py:198-219: list the folders; if one is mounted at the group's
\* folder name, adopt its id when the group has none, and then raise
\* ValueError or, with raise_on_existing_name=False (hooks.py:264-269),
\* return.
InitListFolders(t) ==
  /\ RunningInit(t, "list_folders")
  /\ \E f \in AnyFault, f2 \in AnyFault :
       LET g == tasks[t].group
           i == tasks[t].inst
           name == obj[i].nextcloud_groupfolder_name
           c == Call(f, NcListFolders(nc), nc)
           same == IF c.raised = "" THEN same_name_entries(c.data, name) ELSE {}
           adopt == same # {} /\ obj[i].nextcloud_groupfolder_id = NoId
           o1 == IF adopt
                 THEN [obj[i] EXCEPT !.nextcloud_groupfolder_id = FirstEntry(same)]
                 ELSE obj[i]
       IN \E s \in {IF adopt
                     THEN Save(db, c.nc, o1, g, {"nextcloud_groupfolder_id"}, f2)
                     ELSE NotSaved(db, c.nc, o1)} :
          /\ Inject2(f, f2, s.renames > 0)
          /\ db' = s.db
          /\ nc' = s.nc
          /\ obj' = [obj EXCEPT ![i] = s.obj]
          /\ tasks' = [tasks EXCEPT ![t] =
                         IF c.raised # "" \/ s.raised # ""
                         THEN OnException(Issue(@, "list_folders", c.raised))
                         ELSE IF same # {} /\ raise_on_existing_name(@)
                         THEN OnException(Issue(@, "list_folders", ""))
                         ELSE IF same # {}
                         THEN FolderReturns(Issue(@, "list_folders", ""))
                         ELSE [Issue(@, "list_folders", "") EXCEPT !.pc = "create_folder"]]
  /\ UNCHANGED <<settings, created, members, active, events, last>>

\* create_group_folder keeping the new folder's id on the instance only.
hold_folder_id(dbv, ncv, o, g, folder_id, f) ==
  NotSaved(dbv, ncv, [o EXCEPT !.nextcloud_groupfolder_id = folder_id])

\* nextcloud.py:233-236: the id goes onto the instance and into the table.
save_folder_id(dbv, ncv, o, g, folder_id, f) ==
  Save(dbv, ncv, [o EXCEPT !.nextcloud_groupfolder_id = folder_id], g,
       {"nextcloud_groupfolder_id"}, f)

\* nextcloud.py:221-241: create the folder and save its id on the group.
InitCreateFolder(t) ==
  /\ RunningInit(t, "create_folder")
  /\ \E f \in AnyFault, f2 \in AnyFault :
       LET g == tasks[t].group
           i == tasks[t].inst
           name == obj[i].nextcloud_groupfolder_name
           c == Call(f, NcCreateFolder(nc, name), nc)
           folder_id == IF c.raised = "" THEN c.data.id ELSE NoId
       IN \E s \in {IF c.raised = ""
                     THEN save_folder_id(db, c.nc, obj[i], g, folder_id, f2)
                     ELSE NotSaved(db, c.nc, obj[i])} :
          /\ Inject2(f, f2, s.renames > 0)
          /\ db' = s.db
          /\ nc' = s.nc
          /\ obj' = [obj EXCEPT ![i] = s.obj]
          /\ tasks' = [tasks EXCEPT ![t] =
                         IF c.raised # "" \/ s.raised # ""
                         THEN OnException(Issue(@, "create_folder", c.raised))
                         ELSE [Issue(@, "create_folder", "") EXCEPT
                                 !.pc = "grant", !.folder_id = folder_id]]
  /\ UNCHANGED <<settings, created, members, active, events, last>>

\* The condition of nextcloud.py:255-256 without its second half.
QuotaSet == settings.GROUPFOLDER_QUOTA # 0

\* nextcloud.py:255-256
QuotaConfigured ==
  settings.GROUPFOLDER_QUOTA # 0 /\ settings.GROUPFOLDER_QUOTA # UnlimitedQuota

\* nextcloud.py:243-251: give the group access to the folder.
InitGrant(t) ==
  /\ RunningInit(t, "grant")
  /\ \E f \in AnyFault :
       LET g == tasks[t].group
           i == tasks[t].inst
           c == Call(f, NcGrantGroup(nc, tasks[t].folder_id,
                                     obj[i].nextcloud_group_id), nc)
       IN /\ Inject(f, TRUE)
          /\ nc' = c.nc
          /\ tasks' = [tasks EXCEPT ![t] =
                         IF c.raised # "" THEN OnException(Issue(@, "grant", c.raised))
                         ELSE IF QuotaConfigured
                         THEN [Issue(@, "grant", "") EXCEPT !.pc = "quota"]
                         ELSE FolderReturns(Issue(@, "grant", ""))]
  /\ UNCHANGED <<settings, created, db, obj, members, active, events, last>>

\* nextcloud.py:253-266: set the configured quota.
InitQuota(t) ==
  /\ RunningInit(t, "quota")
  /\ \E f \in AnyFault :
       LET c == Call(f, NcSetQuota(nc, tasks[t].folder_id,
                                   settings.GROUPFOLDER_QUOTA), nc)
       IN /\ Inject(f, TRUE)
          /\ nc' = c.nc
          /\ tasks' = [tasks EXCEPT ![t] =
                         IF c.raised # "" THEN OnException(Issue(@, "quota", c.raised))
                         ELSE FolderReturns(Issue(@, "quota", ""))]
  /\ UNCHANGED <<settings, created, db, obj, members, active, events, last>>

\* hooks.py:270-274: add the admin account to the group; the function ends.
InitAddAdmin(t) ==
  /\ RunningInit(t, "add_admin")
  /\ \E f \in AnyFault :
       LET g == tasks[t].group
           i == tasks[t].inst
           c == add_user_to_group(nc, admin, obj[i].nextcloud_group_id, f)
       IN /\ Inject(f, TRUE)
          /\ nc' = c.nc
          /\ tasks' = [tasks EXCEPT ![t] =
                         IF c.raised # ""
                         THEN OnException(Issue(@, "add_user_to_group", c.raised))
                         ELSE IF tasks[t].fn = WrapFn
                         THEN [Issue(@, "add_user_to_group", "") EXCEPT !.pc = "members"]
                         ELSE OnReturn(Issue(@, "add_user_to_group", ""))]
  /\ UNCHANGED <<settings, created, db, obj, members, active, events, last>>

\* hooks.py:194-201, on signals.group_object_created.
group_created_sub(ts, group, g) ==
  IF group.cloud_enabled
  THEN submit_with_retry(ts, InitFn, g, <<>>, <<>>)
  ELSE ts

\* The platform created group g and sent the signal.
GroupCreated(g) ==
  /\ g \notin created
  /\ Cardinality(created) < MaxCreated
  /\ created' = created \cup {g}
  /\ tasks' = group_created_sub(tasks, obj[g], g)
  /\ last' = [fn |-> "group_created_sub", raised |-> ""]
  /\ UNCHANGED <<settings, db, obj, members, active, nc, faults, events>>

InitStep(t) ==
  \/ InitGenerate(t)
  \/ InitCreateGroup(t)
  \/ InitListFolders(t)
  \/ InitCreateFolder(t)
  \/ InitGrant(t)
  \/ InitQuota(t)
  \/ InitAddAdmin(t)

\* ------------------------------------------------------------------ init

NoCall == [fn |-> "", raised |-> ""]

EmptyBackend ==
  [groups |-> {}, members |-> {}, folders |-> <<>>, users |-> {admin},
   disabled |-> {}]

\* ------------------------------------------- specification: retry executor

\* submit_with_retry(op) called by some thread; the call returns at once.
SubmitOp ==
  /\ Cardinality({ t \in TaskIds : tasks[t].fn = "op" }) < NumOps
  /\ tasks' = submit_with_retry(tasks, "op", 0, <<>>, <<>>)
  /\ last' = [fn |-> "submit_with_retry", raised |-> "",
              busy |-> Cardinality(InFlight)]
  /\ UNCHANGED <<settings, created, db, obj, members, active, nc, faults, events>>

InitRetry ==
  /\ settings = [PREFIX_GROUP_FOLDERS |-> FALSE, GROUPFOLDER_QUOTA |-> UnlimitedQuota]
  /\ db = [g \in Groups |-> NewRow(g, <<"a">>)]
  /\ obj = db
  /\ members = [g \in Groups |-> {}]
  /\ active = {}
  /\ nc = EmptyBackend
  /\ tasks = <<>>
  /\ faults = 0
  /\ events = 0
  /\ created = {}
  /\ last = NoCall

NextRetry ==
  \/ SubmitOp
  \/ \E t \in TaskIds : StartTask(t)
  \/ \E t \in TaskIds : WakeTask(t)
  \/ \E t \in TaskIds : OpReturns(t)
  \/ \E t \in TaskIds : OpRaises(t)

SpecRetry == InitRetry /\ [][NextRetry]_vars

\* C1 -- Retry exhaustion: a task whose every attempt failed is finished only
\* after exactly len(retry_wait)+1 = 7 invocations, having slept the whole
\* schedule, with exactly one "Giving up" log; the error ends in the done
\* callback's log and never in the thread that called submit_with_retry.  No
\* task logs "Giving up" otherwise, and none is invoked more than 7 times.
RetryExhaustion ==
  \A t \in TaskIds :
    /\ tasks[t].calls <= Len(retry_wait) + 1
    /\ tasks[t].log.giving_up = (IF tasks[t].state = "raised" THEN 1 ELSE 0)
    /\ (Finished(t) /\ tasks[t].failed = tasks[t].calls) =>
         /\ tasks[t].state = "raised"
         /\ tasks[t].calls = Len(retry_wait) + 1
         /\ tasks[t].calls = 7
         /\ tasks[t].slept = retry_wait
         /\ tasks[t].log.cb_exception = 1
         /\ tasks[t].log.cb_debug = 0
         /\ ~tasks[t].uncaught
         /\ last.raised = ""

\* A task has been dropped after failing on every attempt.
RetryExhaustionWitness ==
  \E t \in TaskIds : tasks[t].state = "raised" /\ tasks[t].failed = 7

SuccessLogged ==
  \A t \in TaskIds :
    tasks[t].state = "returned" =>
      /\ tasks[t].failed \in 0..Len(retry_wait)
      /\ tasks[t].calls = tasks[t].failed + 1
      /\ tasks[t].log.cb_debug = 1
      /\ tasks[t].log.giving_up = 0
      /\ tasks[t].log.cb_exception = 0

\* C2 -- Retry then success: a task that completed successfully after k
\* failed attempts (k in 0..6) was invoked exactly k+1 times, logged exactly
\* one success and no exhaustion, and is never touched again afterwards.
RetryThenSuccess ==
  /\ []SuccessLogged
  /\ [][\A t \in TaskIds : tasks[t].state = "returned" => tasks'[t] = tasks[t]]_vars

\* One task succeeded at the last possible attempt (k = 6) and another after
\* two failures.
RetryThenSuccessWitness ==
  \E t, u \in TaskIds :
    /\ tasks[t].state = "returned" /\ tasks[t].failed = 6
    /\ tasks[u].state = "returned" /\ tasks[u].failed = 2

\* C28 -- Per-task retry schedule: whatever the other tasks do, a started
\* task has slept a prefix of 2, 5, 10, 30, 60, 300 and holds the rest of
\* it, one delay for each of its own failed attempts (the last failure of a
\* task that gave up has none), and has made at most 7 attempts.
OwnSchedule ==
  \A t \in TaskIds :
    tasks[t].state # "queued" =>
      /\ tasks[t].slept \o tasks[t].retry_wait = <<2, 5, 10, 30, 60, 300>>
      /\ Len(tasks[t].slept) =
           IF tasks[t].state = "raised" THEN tasks[t].failed - 1 ELSE tasks[t].failed
      /\ tasks[t].calls =
           IF tasks[t].state \in {"running", "returned"}
           THEN tasks[t].failed + 1 ELSE tasks[t].failed
      /\ tasks[t].calls <= 7

\* One task has used up its schedule and given up; another, started after
\* that, is in the pause after its first failure with five delays left.
OwnScheduleWitness ==
  \E t, u \in TaskIds :
    /\ tasks[t].state = "raised"
    /\ tasks[t].slept = <<2, 5, 10, 30, 60, 300>>
    /\ tasks[u].state = "sleeping"
    /\ tasks[u].slept = <<2>>
    /\ tasks[u].retry_wait = <<5, 10, 30, 60, 300>>

\* ------------------------------------------------ specification: membership

\* The join receiver without the test of hooks.py:80: it submits also for a
\* group whose cloud app is deactivated.
user_joined_ignoring_apps(ts, user, group) ==
  IF group.nextcloud_group_id # None
  THEN submit_with_retry(ts, "add_user_to_group", 0, get_nc_user_id(user),
                         group.nextcloud_group_id)
  ELSE ts

\* The leave receiver with the test the join receiver makes: it submits only
\* for a group whose cloud app is active.
user_left_checking_apps(ts, user, group) ==
  IF group.cloud_enabled /\ group.nextcloud_group_id # None
  THEN submit_with_retry(ts, "remove_user_from_group", 0, get_nc_user_id(user),
                         group.nextcloud_group_id)
  ELSE ts

\* hooks.py:77-90, after the platform recorded the membership.  The handler
\* reads the group the sender passed, a fresh copy of the row.
user_joined_group_receiver_sub(ts, user, group) ==
  IF group.cloud_enabled /\ group.nextcloud_group_id # None
  THEN submit_with_retry(ts, "add_user_to_group", 0, get_nc_user_id(user),
                         group.nextcloud_group_id)
  ELSE ts

\* hooks.py:93-109
user_left_group_receiver_sub(ts, user, group) ==
  IF group.nextcloud_group_id # None
  THEN submit_with_retry(ts, "remove_user_from_group", 0, get_nc_user_id(user),
                         group.nextcloud_group_id)
  ELSE ts

\* signals.user_joined_group
UserJoined(u, g) ==
  /\ events < MaxEvents
  /\ u \notin members[g]
  /\ members' = [members EXCEPT ![g] = @ \cup {u}]
  /\ tasks' = user_joined_group_receiver_sub(tasks, u, db[g])
  /\ events' = events + 1
  /\ last' = [fn |-> "user_joined_group_receiver_sub", raised |-> "",
              user |-> u, group |-> g]
  /\ UNCHANGED <<settings, created, db, obj, active, nc, faults>>

\* signals.user_left_group
UserLeft(u, g) ==
  /\ events < MaxEvents
  /\ u \in members[g]
  /\ members' = [members EXCEPT ![g] = @ \ {u}]
  /\ tasks' = user_left_group_receiver_sub(tasks, u, db[g])
  /\ events' = events + 1
  /\ last' = [fn |-> "user_left_group_receiver_sub", raised |-> "",
              user |-> u, group |-> g]
  /\ UNCHANGED <<settings, created, db, obj, active, nc, faults>>

\* Group 1 as initialize_nextcloud_for_group leaves a group named "ab" on an
\* empty backend; the other groups are untouched.
InitializedRow(g) ==
  [NewRow(g, <<"a", "b">>) EXCEPT !.nextcloud_group_id = <<"a", "b">>,
                                  !.nextcloud_groupfolder_name = <<"a", "b">>,
                                  !.nextcloud_groupfolder_id = 1]

InitializedBackend ==
  [groups |-> {<<"a", "b">>},
   members |-> {<<admin, <<"a", "b">>>>},
   folders |-> <<[mount_point |-> <<"a", "b">>, groups |-> {<<"a", "b">>},
                  quota |-> UnlimitedQuota]>>,
   users |-> {admin} \cup {get_nc_user_id(u) : u \in Users},
   disabled |-> {}]

InitMember ==
  /\ settings = [PREFIX_GROUP_FOLDERS |-> FALSE, GROUPFOLDER_QUOTA |-> UnlimitedQuota]
  /\ db = [g \in Groups |-> IF g = 1 THEN InitializedRow(g) ELSE NewRow(g, <<"b">>)]
  /\ obj = db
  /\ members = [g \in Groups |-> {}]
  /\ active = Users
  /\ nc = InitializedBackend
  /\ tasks = <<>>
  /\ faults = 0
  /\ events = 0
  /\ created = {1}
  /\ last = NoCall

NextMember ==
  \/ \E u \in Users, g \in Groups : UserJoined(u, g)
  \/ \E u \in Users, g \in Groups : UserLeft(u, g)
  \/ \E t \in TaskIds : StartTask(t)
  \/ \E t \in TaskIds : WakeTask(t)
  \/ \E t \in TaskIds : RunAddUser(t)
  \/ \E t \in TaskIds : RunRemoveUser(t)

SpecMember == InitMember /\ [][NextMember]_vars

AllTasksSucceeded == \A t \in TaskIds : tasks[t].state = "returned"

\* C3 -- Eventual convergence of membership: for a cloud-enabled group whose
\* nextcloud_group_id is set, once every submitted task has completed
\* successfully a user is in the remote group iff the user is in the platform
\* group.
MembershipConverges ==
  AllTasksSucceeded =>
    \A g \in Groups, u \in Users :
      (db[g].cloud_enabled /\ db[g].nextcloud_group_id # None) =>
        (<<get_nc_user_id(u), db[g].nextcloud_group_id>> \in nc.members
           <=> u \in members[g])


\* ------------------------------------------- specification: a busy executor

\* A task whose call to the backend does not come back while the model
\* runs: it holds its worker.
HeldTask ==
  [NewTask("create_user_from_obj", 0, <<>>, <<>>) EXCEPT
     !.state = "running", !.pc = "call", !.calls = 1, !.retry_wait = retry_wait]

\* All workers but one are held.
InitPool ==
  /\ settings = [PREFIX_GROUP_FOLDERS |-> FALSE, GROUPFOLDER_QUOTA |-> UnlimitedQuota]
  /\ db = [g \in Groups |-> NewRow(g, <<"a">>)]
  /\ obj = db
  /\ members = [g \in Groups |-> {}]
  /\ active = {}
  /\ nc = EmptyBackend
  /\ tasks = [k \in 1..(max_workers - 1) |-> HeldTask]
  /\ faults = 0
  /\ events = 0
  /\ created = {}
  /\ last = NoCall

NextPool ==
  \/ SubmitOp
  \/ \E t \in TaskIds : StartTask(t)
  \/ \E t \in TaskIds : WakeTask(t)
  \/ \E t \in TaskIds : OpReturns(t)
  \/ \E t \in TaskIds : OpRaises(t)

SpecPool == InitPool /\ [][NextPool]_vars

\* C14 -- submit is non-blocking: submit_with_retry can be called whatever
\* the workers are doing, also when all 64 of them are running or sleeping;
\* when it returns, the new operation is in the queue, no attempt of it has
\* been made and no pause of it slept, no other task has moved, and nothing
\* was raised to the caller.
SubmitNonBlocking ==
  /\ [](Cardinality({ t \in TaskIds : tasks[t].fn = "op" }) < NumOps =>
          ENABLED SubmitOp)
  /\ [][Len(tasks') > Len(tasks) =>
          /\ Len(tasks') = Len(tasks) + 1
          /\ SubSeq(tasks', 1, Len(tasks)) = tasks
          /\ tasks'[Len(tasks')].state = "queued"
          /\ tasks'[Len(tasks')].calls = 0
          /\ tasks'[Len(tasks')].slept = <<>>
          /\ last'.fn = "submit_with_retry"
          /\ last'.raised = ""
      ]_vars

\* submit_with_retry has just returned from a call made while all 64
\* workers were taken, one of them by a task pausing before a retry; the
\* new operation waits in the queue.
SubmitNonBlockingWitness ==
  /\ last.fn = "submit_with_retry"
  /\ last.busy = max_workers
  /\ tasks[Len(tasks)].state = "queued"
  /\ \E t \in TaskIds : tasks[t].state = "sleeping"

\* C15 -- Bounded concurrency with blocking delays: at most 64 submitted
\* operations are ever executing an attempt or pausing between attempts; a
\* pausing task keeps its worker (it goes on to its next attempt without
\* queueing again), and a queued task starts only while fewer than 64 are
\* executing or pausing, that is after one of them has completed or given
\* up.
BoundedConcurrency ==
  /\ [](Cardinality({ t \in TaskIds : tasks[t].state \in {"running", "sleeping"} })
          <= max_workers)
  /\ [][\A t \in TaskIds :
          /\ tasks[t].state = "sleeping" => tasks'[t].state \in {"sleeping", "running"}
          /\ (tasks[t].state = "queued" /\ tasks'[t].state # "queued") =>
               Cardinality({ u \in TaskIds :
                               tasks[u].state \in {"running", "sleeping"} })
                 < max_workers
      ]_vars

\* All 64 workers are taken, one of them by a pausing task, while an
\* operation waits in the queue.
BoundedConcurrencyWitness ==
  /\ Cardinality({ t \in TaskIds : tasks[t].state \in {"running", "sleeping"} })
       = max_workers
  /\ \E t \in TaskIds : tasks[t].state = "sleeping" /\ tasks[t].failed >= 1
  /\ \E t \in TaskIds : tasks[t].state = "queued"

\* ------------------------------------- specification: group initialization

\* Display names of the groups: they differ in case only, so that their
\* identifiers collide.
InitName(g) == IF g % 2 = 1 THEN <<"a", "b">> ELSE <<"A", "b">>
\* COSINNUS_CLOUD_NEXTCLOUD_GROUPFOLDER_QUOTA values: unlimited, and a size.
QuotaSettings == { UnlimitedQuota, 1024 }

InitInit ==
  /\ settings \in [PREFIX_GROUP_FOLDERS : {FALSE}, GROUPFOLDER_QUOTA : QuotaSettings]
  /\ db = [g \in Groups |-> NewRow(g, InitName(g))]
  /\ obj = db
  /\ members = [g \in Groups |-> {}]
  /\ active = {}
  /\ nc = EmptyBackend
  /\ tasks = <<>>
  /\ faults = 0
  /\ events = 0
  /\ created = {}
  /\ last = NoCall

NextInit ==
  \/ \E g \in Groups : GroupCreated(g)
  \/ \E t \in TaskIds : StartTask(t)
  \/ \E t \in TaskIds : WakeTask(t)
  \/ \E t \in TaskIds : InitStep(t)

SpecInit == InitInit /\ [][NextInit]_vars

\* The folder the initialization of group g is meant to leave behind.
FolderReady(g, i) ==
  /\ i \in DOMAIN nc.folders
  /\ nc.folders[i].mount_point = db[g].nextcloud_groupfolder_name
  /\ db[g].nextcloud_group_id \in nc.folders[i].groups
  /\ QuotaConfigured => nc.folders[i].quota = settings.GROUPFOLDER_QUOTA
  /\ db[g].nextcloud_groupfolder_id = i

\* C4 -- Idempotent, convergent group initialization: once the composite
\* task of a group has finished successfully (on whichever attempt), the
\* remote group exists, a folder with the group's folder name exists, the
\* group has access to it, the configured quota is set on it, the admin
\* account is in the group, and nextcloud_groupfolder_id is that folder's id.
InitializationConverges ==
  \A t \in TaskIds :
    (tasks[t].fn = InitFn /\ tasks[t].state = "returned") =>
      LET g == tasks[t].group IN
      /\ db[g].nextcloud_group_id \in nc.groups
      /\ <<admin, db[g].nextcloud_group_id>> \in nc.members
      /\ \E i \in DOMAIN nc.folders : FolderReady(g, i)

\* A create_group step of task t: the task stands at hooks.py:262 and moves.
CreateGroupStep(t) ==
  /\ t \in TaskIds
  /\ Running(t, InitFn, "create_group")
  /\ tasks'[t] # tasks[t]

\* C10 -- Idempotent remote creation: create_group for a group id the
\* backend already has (it answers the structured error 102) returns None,
\* raises nothing and leaves the backend as it was, and the task goes on to
\* the next call; a structured error with any other code is raised to the
\* caller with that code, and the attempt ends there.
CreateGroupIdempotent ==
  [][\A t \in TaskIds :
       CreateGroupStep(t) =>
         LET r == last'.response
             structured == r.http_ok /\ r.json /\ r.status # "ok"
         IN /\ last'.fn = "create_group"
            /\ (last'.groupid \in nc.groups /\ structured /\ r.statuscode = 102) =>
                 /\ last'.ret = "None"
                 /\ last'.raised = ""
                 /\ nc' = nc
                 /\ tasks'[t].pc = "list_folders"
            /\ (structured /\ r.statuscode # 102) =>
                 /\ last'.raised = "OCSException"
                 /\ last'.statuscode = r.statuscode
                 /\ tasks'[t].state \in {"sleeping", "raised"}
     ]_vars

\* create_group has returned None for a group that exists remotely.
CreateGroupIdempotentWitness ==
  /\ last.fn = "create_group"
  /\ last.ret = "None"
  /\ last.response.statuscode = 102
  /\ last.groupid \in nc.groups



\* The requests of initialize_nextcloud_for_group in program order:
\* create_group (hooks.py:262), the four of create_group_folder
\* (hooks.py:264-269, nextcloud.py:198-264), add_user_to_group (hooks.py:271).
CallOrder ==
  <<"create_group", "list_folders", "create_folder", "grant", "quota",
    "add_user_to_group">>

Rank(call) == CHOOSE k \in DOMAIN CallOrder : CallOrder[k] = call

\* The requests one attempt has sent so far are in program order, begin
\* with create_group, and none follows one that failed.
InOrder(issued) ==
  /\ \A a, b \in DOMAIN issued : a < b => Rank(issued[a].call) < Rank(issued[b].call)
  /\ \A a \in DOMAIN issued : a < Len(issued) => issued[a].ok
  /\ issued # <<>> => issued[1].call = "create_group"
  /\ \A a \in DOMAIN issued :
       issued[a].call = "add_user_to_group" =>
         \E b \in 1..(a - 1) : issued[b].call = "list_folders"

\* C12 -- Group-created composite ordering: within every attempt of the
\* initialization task the requests go out in the order create_group, then
\* create_group_folder (its listing first), then add_user_to_group; no
\* request follows a failed one within an attempt; a failed request ends
\* the attempt, and the next attempt starts at the first statement with
\* nothing sent yet.
CompositeOrdering ==
  /\ [](\A t \in TaskIds : tasks[t].fn = InitFn => InOrder(tasks[t].issued))
  /\ [][\A t \in TaskIds :
          /\ (tasks[t].fn = InitFn /\ tasks'[t].failed > tasks[t].failed) =>
               /\ tasks'[t].state \in {"sleeping", "raised"}
               /\ tasks'[t].pc = ""
          /\ (tasks[t].fn = InitFn /\ tasks'[t].calls > tasks[t].calls) =>
               /\ tasks'[t].pc = "generate"
               /\ tasks'[t].issued = <<>>
      ]_vars

\* A second attempt, after a first one whose request failed, has gone
\* through all three calls and returned.
CompositeOrderingWitness ==
  \E t \in TaskIds :
    /\ tasks[t].fn = InitFn
    /\ tasks[t].state = "returned"
    /\ tasks[t].calls >= 2
    /\ Len(tasks[t].issued) >= 3
    /\ tasks[t].issued[1].call = "create_group"
    /\ tasks[t].issued[2].call = "list_folders"
    /\ tasks[t].issued[Len(tasks[t].issued)].call = "add_user_to_group"


\* C13 -- Identifiers are generated and saved by the handler, before the
\* task is submitted: once the group-created handler has returned for a
\* group with the cloud app enabled, the table holds the group's
\* nextcloud_group_id and nextcloud_groupfolder_name, whatever the workers
\* have done so far.
IdentifiersPersistedByHandler ==
  \A g \in created :
    db[g].cloud_enabled =>
      /\ Truthy(db[g].nextcloud_group_id)
      /\ Truthy(db[g].nextcloud_groupfolder_name)

\* ---------------------------------- specification: a folder name is taken

\* A folder no group row points to, mounted where group 1 will want its own.
OrphanBackend ==
  [EmptyBackend EXCEPT !.folders = <<[mount_point |-> InitName(1), groups |-> {},
                                      quota |-> UnlimitedQuota]>>]

InitAdopt ==
  /\ settings \in [PREFIX_GROUP_FOLDERS : {FALSE}, GROUPFOLDER_QUOTA : QuotaSettings]
  /\ db = [g \in Groups |-> NewRow(g, InitName(g))]
  /\ obj = db
  /\ members = [g \in Groups |-> {}]
  /\ active = {}
  /\ nc = OrphanBackend
  /\ tasks = <<>>
  /\ faults = 0
  /\ events = 0
  /\ created = {}
  /\ last = NoCall

NextAdopt ==
  \/ \E g \in Groups : GroupCreated(g)
  \/ \E t \in TaskIds : StartTask(t)
  \/ \E t \in TaskIds : WakeTask(t)
  \/ \E t \in TaskIds : InitStep(t)

SpecAdopt == InitAdopt /\ [][NextAdopt]_vars

\* Task t makes the first move of create_group_folder (nextcloud.py:198).
ListFoldersStep(t) ==
  /\ t \in TaskIds
  /\ RunningInit(t, "list_folders")
  /\ tasks'[t] # tasks[t]

\* The folders of the backend mounted exactly at the name task t passes.
MountedAt(t) ==
  { k \in DOMAIN nc.folders :
      nc.folders[k].mount_point = obj[tasks[t].inst].nextcloud_groupfolder_name }

\* C11 -- No duplicate folder: create_group_folder called with
\* raise_on_existing_name=False while the backend lists a folder mounted
\* exactly at the given name, every request of the call being answered,
\* sends no folder-creation request, does not raise, leaves the number of
\* folders unchanged and, if the group's nextcloud_groupfolder_id was unset,
\* sets it (on the instance and in the table) to the first listed folder of
\* that name.
NoDuplicateFolder ==
  [][\A t \in TaskIds :
       (ListFoldersStep(t) /\ MountedAt(t) # {} /\ faults' = faults) =>
         LET g == tasks[t].group
             i == tasks[t].inst
             found == CHOOSE k \in MountedAt(t) : \A m \in MountedAt(t) : k <= m
         IN /\ tasks'[t].state = "running"
            /\ tasks'[t].pc = "add_admin"
            /\ tasks'[t].issued =
                 Append(tasks[t].issued, [call |-> "list_folders", ok |-> TRUE])
            /\ Len(nc'.folders) = Len(nc.folders)
            /\ obj[i].nextcloud_groupfolder_id = NoId =>
                 /\ db'[g].nextcloud_groupfolder_id = found
                 /\ obj'[i].nextcloud_groupfolder_id = found
            /\ obj[i].nextcloud_groupfolder_id # NoId =>
                 /\ db'[g].nextcloud_groupfolder_id = db[g].nextcloud_groupfolder_id
                 /\ obj'[i].nextcloud_groupfolder_id = obj[i].nextcloud_groupfolder_id
    ]_vars

\* create_group_folder has just returned from the name-taken branch, and
\* the group now points to the folder it found, which no group had access to.
NoDuplicateFolderWitness ==
  \E t \in TaskIds :
    /\ tasks[t].state = "running"
    /\ tasks[t].pc = "add_admin"
    /\ tasks[t].issued[Len(tasks[t].issued)].call = "list_folders"
    /\ db[tasks[t].group].nextcloud_groupfolder_id \in DOMAIN nc.folders
    /\ nc.folders[db[tasks[t].group].nextcloud_groupfolder_id].groups = {}
    /\ Len(nc.folders) = 1

\* ------------------------------------------------- specification: names

\* Display names the platform's users give their groups: a plain one, one
\* that the filter reduces to "Ab", the protected name, and one of exactly
\* MaxNameLen characters.
LongName == Rep("a", MaxNameLen)
DisplayNames ==
  { <<"a", "b">>, <<" ", "A", "b", "!">>, <<"A", "d", "m", "i", "n">>, LongName }

\* What the backend may answer to a rename call.
RenameAnswers == AnyFault \cup {"not_true"}

GenFn == "generate_group_nextcloud_field"

\* The answers the backend may give to the rename call of a request: a
\* fault needs a call to answer, and is counted.
Answers(called) ==
  IF called /\ faults < MaxFaults THEN RenameAnswers ELSE {"none"}

\* hooks.py:244-246: a request loads group g, gives it the display name n
\* and saves it; post_save runs the rename receiver on that instance.  The
\* call record keeps the instance as the receiver left it and the row as
\* the table then holds it.
SaveGroup(g, n) ==
  /\ events < MaxRequests
  /\ \E o \in {[db[g] EXCEPT !.name = n]} :
     \E s0 \in {Save(db, nc, o, g, DOMAIN o, "none")} :
     \E f \in Answers(s0.renames > 0) :
     \E s \in {IF f = "none" THEN s0 ELSE Save(db, nc, o, g, DOMAIN o, f)} :
             /\ faults' = faults + Injected(f)
             /\ db' = s.db
             /\ nc' = s.nc
             /\ last' = [fn |-> "save", group |-> g, raised |-> s.raised,
                          called_with |-> s.called_with, result |-> s.result,
                          renames |-> s.renames, hooks |-> s.hooks,
                          obj |-> s.obj, row |-> s.db[g]]
  /\ events' = events + 1
  /\ UNCHANGED <<settings, created, obj, members, active, tasks>>

\* hooks.py:131-138: a caller generates `field` for group g, on a freshly
\* loaded instance or (reuse) on the instance the previous generator call
\* for the group left behind.
GenerateCall(g, field, save, force_generate, reuse) ==
  /\ events < MaxRequests
  /\ reuse => last.fn = GenFn /\ last.group = g
  /\ \E o \in {IF reuse THEN last.obj ELSE db[g]} :
     \E r0 \in {generate_group_nextcloud_field(db, nc, o, g, field, save,
                                                force_generate, "none")} :
     \E f \in Answers(r0.renames > 0) :
     \E r \in {IF f = "none" THEN r0
                ELSE generate_group_nextcloud_field(db, nc, o, g, field, save,
                                                    force_generate, f)} :
             /\ faults' = faults + Injected(f)
             /\ db' = r.db
             /\ nc' = r.nc
             /\ last' = [fn |-> GenFn, group |-> g, field |-> field, save |-> save,
                          force_generate |-> force_generate, instance |-> o,
                          ret |-> r.ret, raised |-> r.raised,
                          called_with |-> r.called_with, result |-> r.result,
                          obj |-> r.obj, row |-> r.db[g]]
  /\ events' = events + 1
  /\ UNCHANGED <<settings, created, obj, members, active, tasks>>

\* Group 1 is initialized (as in the membership specification), the other
\* groups have not been touched by the cloud app yet.
InitNames ==
  /\ settings = [PREFIX_GROUP_FOLDERS |-> FALSE, GROUPFOLDER_QUOTA |-> UnlimitedQuota]
  /\ db = [g \in Groups |-> IF g = 1 THEN InitializedRow(g)
                                      ELSE NewRow(g, InitName(g))]
  /\ obj = db
  /\ members = [g \in Groups |-> {}]
  /\ active = Users
  /\ nc = InitializedBackend
  /\ tasks = <<>>
  /\ faults = 0
  /\ events = 0
  /\ created = {1}
  /\ last = NoCall

NextNames ==
  \/ \E g \in Groups, n \in DisplayNames : SaveGroup(g, n)
  \/ \E g \in Groups, field \in Fields, save \in BOOLEAN, force \in BOOLEAN,
        reuse \in BOOLEAN :
          GenerateCall(g, field, save, force, reuse)

SpecNames == InitNames /\ [][NextNames]_vars

\* C5 -- Uniqueness: after any sequence of generations, each generated and
\* persisted before the next starts, two distinct groups that hold a value
\* for the same field hold values that differ when compared without regard
\* to case, and no group holds the protected value "admin"; so groups with
\* identical display names hold different identifiers.
Uniqueness ==
  \A field \in Fields :
    \A g \in Groups :
      Truthy(db[g][field]) =>
        /\ Lower(db[g][field]) # <<"a", "d", "m", "i", "n">>
        /\ \A h \in Groups \ {g} :
             Truthy(db[h][field]) => Lower(db[h][field]) # Lower(db[g][field])

\* Two groups whose display names filter to the same name, case aside, hold
\* identifiers in both fields.
UniquenessWitness ==
  \E g, h \in Groups :
    /\ g # h
    /\ Lower(FilteredName(db[g])) = Lower(FilteredName(db[h]))
    /\ \A field \in Fields : Truthy(db[g][field]) /\ Truthy(db[h][field])

\* C6 -- Truncation: an identifier the generator returns is at most
\* MaxNameLen = 64 characters long, also when a collision suffix was added.
Truncation ==
  (last.fn = GenFn /\ last.raised = "") => Len(last.ret) <= MaxNameLen

\* C7 -- Idempotent generation: a call without force on an instance that
\* holds a value for the field returns that value and writes nothing, to
\* the table, the backend or the instance; so two calls without force in a
\* row, the second on the instance the first left behind, for the same
\* field, return the same value.
IdempotentGeneration ==
  [][(events' = events + 1 /\ last'.fn = GenFn /\ ~last'.force_generate) =>
       /\ Truthy(last'.instance[last'.field]) =>
            /\ last'.ret = last'.instance[last'.field]
            /\ last'.raised = ""
            /\ last'.obj = last'.instance
            /\ db' = db
            /\ nc' = nc
       /\ ( /\ last.fn = GenFn /\ ~last.force_generate
            /\ last.group = last'.group /\ last.field = last'.field
            /\ last'.instance = last.obj
            /\ last.raised = "" /\ last'.raised = "" ) =>
            last'.ret = last.ret
     ]_vars

\* A call without force has returned a stored value that a fresh generation
\* would not have produced (the group was renamed since).
IdempotentGenerationWitness ==
  /\ last.fn = GenFn
  /\ ~last.force_generate
  /\ Truthy(last.instance[last.field])
  /\ last.ret = last.instance[last.field]
  /\ last.ret # UniqueName(db, last.group, last.instance, last.field)

\* The request just served ran the rename receiver after its save and was
\* not itself a generation of the folder name.
HookStep ==
  /\ events' = events + 1
  /\ last'.fn = "save" \/ (last'.fn = GenFn /\ last'.field = "nextcloud_group_id")

\* C8 -- Rename safety: in the rename receiver the persisted folder name
\* changes only after the rename call for the new name returned true, and
\* then the backend's folder carries that name; if the call returns
\* anything else, or the folder id is missing, the persisted folder name is
\* unchanged and the group reads back with the prior name.
RenameSafety ==
  [][HookStep =>
       LET g == last'.group
           before == db[g].nextcloud_groupfolder_name
           after == db'[g].nextcloud_groupfolder_name
       IN /\ after # before =>
               /\ last'.called_with = after
               /\ last'.result = TRUE
               /\ nc'.folders[db[g].nextcloud_groupfolder_id].mount_point = after
          /\ (last'.called_with # None /\ last'.result # TRUE) =>
               /\ after = before
               /\ last'.row.nextcloud_groupfolder_name = before
               /\ nc' = nc
          /\ db[g].nextcloud_groupfolder_id = NoId =>
               /\ after = before
               /\ last'.called_with = None
     ]_vars

\* After a rename that went through, a later save asked for another rename
\* and the backend answered with something other than true.
RenameSafetyWitness ==
  /\ db[1].nextcloud_groupfolder_name # InitializedRow(1).nextcloud_groupfolder_name
  /\ nc.folders[1].mount_point = db[1].nextcloud_groupfolder_name
  /\ last.fn = "save"
  /\ last.group = 1
  /\ last.called_with # None
  /\ last.result # TRUE
  /\ last.raised = ""

\* C9 -- Rename failure: when the rename call does not succeed (it returns
\* something other than true, or it fails with a remote or transport
\* error), the receiver has reloaded the instance from the table, so the
\* instance does not carry the unconfirmed folder name.
RenameFailureReloads ==
  (last.fn = "save" /\ last.called_with # None /\ last.result # TRUE) =>
    /\ last.obj = last.row
    /\ last.obj.nextcloud_groupfolder_name # last.called_with


\* Value v is taken for `field`: it is the protected name, or another group
\* than g holds it, case aside.
Collides(dbv, g, field, v) ==
  \E lv \in {Lower(v)} :
    \/ lv = <<"a", "d", "m", "i", "n">>
    \/ \E h \in Groups \ {g} : dbv[h][field] # None /\ Lower(dbv[h][field]) = lv

Suffixed(c, n) == c \o <<" ">> \o Decimal(n)

\* The name the candidate c should become: c itself if it is free, else c
\* with the smallest free number from 2 on (each other group takes at most
\* one of them).
ExpectedName(dbv, g, field, c) ==
  IF ~Collides(dbv, g, field, c) THEN c
  ELSE Suffixed(c, CHOOSE n \in 2..(NumGroups + 2) :
                     /\ ~Collides(dbv, g, field, Suffixed(c, n))
                     /\ \A m \in 2..(n - 1) : Collides(dbv, g, field, Suffixed(c, m)))

\* C20 -- Collision suffix: a call of the generator that generates (forced,
\* or the instance holds no value) and returns gives back the truncated
\* candidate itself if that collides neither with another group's value
\* of the field, case aside, nor with "admin", and otherwise the candidate
\* followed by a space and the smallest n >= 2 for which the result does
\* not collide.
CollisionSuffix ==
  [][(/\ last'.fn = GenFn
      /\ events' = events + 1
      /\ last'.raised = ""
      /\ last'.force_generate \/ ~Truthy(last'.instance[last'.field])) =>
       \E c \in {FilteredName(last'.instance)} :
         last'.ret = ExpectedName(db, last'.group, last'.field, c)
    ]_vars

\* The generator has returned a candidate with the suffix 3: the candidate
\* and the candidate with the suffix 2 were both taken.
CollisionSuffixWitness ==
  /\ last.fn = GenFn
  /\ last.raised = ""
  /\ last.ret = Suffixed(FilteredName(last.instance), 3)

\* --------------------------------------- specification: app (de)activation

\* The names of this app and of another one in group.get_deactivated_apps().
CloudApp == "cosinnus_cloud"
OtherApp == "cosinnus_todo"

\* hooks.py:218-221, on signals.group_apps_deactivated: the platform has
\* saved the group with the cloud app among its deactivated apps (the rename
\* receiver does nothing for such an instance, hooks.py:228); the handler
\* does nothing.
AppsDeactivated(g) ==
  /\ events < MaxEvents
  /\ db[g].cloud_enabled
  /\ db' = [db EXCEPT ![g].cloud_enabled = FALSE]
  /\ events' = events + 1
  /\ last' = [fn |-> "group_cloud_app_deactivated_sub", raised |-> "", group |-> g]
  /\ UNCHANGED <<settings, created, obj, members, active, nc, tasks, faults>>

\* The activation handler without the test of hooks.py:207: it submits the
\* closure whichever apps were activated.
activated_sub_for_any_app(ts, g, apps, inst) ==
  [submit_with_retry(ts, WrapFn, g, <<>>, <<>>) EXCEPT ![Len(ts) + 1].inst = inst]

\* hooks.py:204-216: the handler submits the closure, which holds the
\* instance `inst` the signal passed.
group_cloud_app_activated_sub(ts, g, apps, inst) ==
  IF CloudApp \in apps
  THEN [submit_with_retry(ts, WrapFn, g, <<>>, <<>>) EXCEPT ![Len(ts) + 1].inst = inst]
  ELSE ts

\* signals.group_apps_activated: a request has saved group g with `apps`
\* taken off its deactivated apps (post_save runs the rename receiver on
\* that instance) and, unless the save raised, sends the signal with the
\* instance, which the submitted closure keeps.
AppsActivated(g, apps) ==
  /\ events < MaxEvents
  /\ CloudApp \in apps => ~db[g].cloud_enabled
  /\ \E o \in {[db[g] EXCEPT !.cloud_enabled = @ \/ CloudApp \in apps]} :
     \E s0 \in {Save(db, nc, o, g, DOMAIN o, "none")} :
     \E f \in Answers(s0.renames > 0) :
     \E s \in {IF f = "none" THEN s0 ELSE Save(db, nc, o, g, DOMAIN o, f)} :
        /\ faults' = faults + Injected(f)
        /\ db' = s.db
        /\ nc' = s.nc
        /\ tasks' = IF s.raised = ""
                    THEN group_cloud_app_activated_sub(tasks, g, apps,
                                                       NumGroups + Len(tasks) + 1)
                    ELSE tasks
        /\ obj' = IF Len(tasks') > Len(tasks)
                  THEN (NumGroups + Len(tasks) + 1 :> s.obj) @@ obj
                  ELSE obj
        /\ last' = [fn |-> "group_cloud_app_activated_sub", raised |-> s.raised,
                    group |-> g, apps |-> apps]
  /\ events' = events + 1
  /\ UNCHANGED <<settings, created, members, active>>

\* The loop of hooks.py:210-213 run over a membership listing that names
\* every user twice.
RECURSIVE SubmitAddAllTwice(_, _, _)
SubmitAddAllTwice(ts, users, groupid) ==
  IF users = {} THEN ts
  ELSE LET u == CHOOSE x \in users : \A y \in users : x <= y
           once == submit_with_retry(ts, "add_user_to_group", 0,
                                     get_nc_user_id(u), groupid)
       IN SubmitAddAllTwice(submit_with_retry(once, "add_user_to_group", 0,
                                              get_nc_user_id(u), groupid),
                            users \ {u}, groupid)

\* hooks.py:210-213: one submit per user, in the order of the user ids.
RECURSIVE SubmitAddAll(_, _, _)
SubmitAddAll(ts, users, groupid) ==
  IF users = {} THEN ts
  ELSE LET u == CHOOSE x \in users : \A y \in users : x <= y
       IN SubmitAddAll(submit_with_retry(ts, "add_user_to_group", 0,
                                         get_nc_user_id(u), groupid),
                       users \ {u}, groupid)

\* hooks.py:210-215: initialize_nextcloud_for_group has returned inside
\* _conurrent_wrap; the loop over group.actual_members submits the
\* additions and the closure returns.
WrapMembers(t) ==
  /\ RunningInit(t, "members")
  /\ tasks' = SubmitAddAll([tasks EXCEPT ![t] = OnReturn(@)],
                           members[tasks[t].group],
                           obj[tasks[t].inst].nextcloud_group_id)
  /\ UNCHANGED <<settings, created, db, obj, members, active, nc, faults, events, last>>

Apps == { {CloudApp}, {OtherApp} }

NextFeature ==
  \/ \E u \in Users, g \in Groups : UserJoined(u, g)
  \/ \E u \in Users, g \in Groups : UserLeft(u, g)
  \/ \E g \in Groups : AppsDeactivated(g)
  \/ \E g \in Groups, apps \in Apps : AppsActivated(g, apps)
  \/ \E t \in TaskIds : tasks[t].fn = WrapFn /\ StartTask(t)
  \/ \E t \in TaskIds : WakeTask(t)
  \/ \E t \in TaskIds : InitStep(t)
  \/ \E t \in TaskIds : WrapMembers(t)

\* Group 1 is initialized and the other groups are new, as in the
\* membership specification.  The additions and removals the receivers
\* submit stay in the queue: what they do once a worker takes them is the
\* subject of the membership specification.
SpecFeature == InitMember /\ [][NextFeature]_vars

\* The handler `fn` has just run on an event.
Handled(fn) == last'.fn = fn /\ events' = events + 1

\* The step appended exactly one task, a queued one.
OneSubmitted ==
  /\ Len(tasks') = Len(tasks) + 1
  /\ SubSeq(tasks', 1, Len(tasks)) = tasks
  /\ tasks'[Len(tasks')].state = "queued"
  /\ tasks'[Len(tasks')].calls = 0

\* C16 -- User-joined handler: a 'user joined group' event submits exactly
\* one add_user_to_group(nextcloud id of the user, the group's
\* nextcloud_group_id) task if the group's nextcloud_group_id is set and
\* the cloud app is active for the group, and no task otherwise.
JoinSubmitsAddition ==
  [][Handled("user_joined_group_receiver_sub") =>
       IF db[last'.group].cloud_enabled /\ db[last'.group].nextcloud_group_id # None
       THEN /\ OneSubmitted
            /\ tasks'[Len(tasks')].fn = "add_user_to_group"
            /\ tasks'[Len(tasks')].userid = <<"wechange-", last'.user>>
            /\ tasks'[Len(tasks')].groupid = db[last'.group].nextcloud_group_id
       ELSE tasks' = tasks
    ]_vars

\* A user has just joined an active group that has its identifier, and the
\* addition waits in the queue.
JoinSubmitsAdditionWitness ==
  /\ last.fn = "user_joined_group_receiver_sub"
  /\ db[last.group].cloud_enabled
  /\ tasks # <<>>
  /\ tasks[Len(tasks)].fn = "add_user_to_group"
  /\ tasks[Len(tasks)].state = "queued"
  /\ tasks[Len(tasks)].userid = <<"wechange-", last.user>>
  /\ tasks[Len(tasks)].groupid = db[last.group].nextcloud_group_id

\* C17 -- User-left handler: a 'user left group' event submits exactly one
\* remove_user_from_group(nextcloud id of the user, the group's
\* nextcloud_group_id) task if the group's nextcloud_group_id is set,
\* whether or not the cloud app is active for the group, and no task
\* otherwise.
LeaveSubmitsRemoval ==
  [][Handled("user_left_group_receiver_sub") =>
       IF db[last'.group].nextcloud_group_id # None
       THEN /\ OneSubmitted
            /\ tasks'[Len(tasks')].fn = "remove_user_from_group"
            /\ tasks'[Len(tasks')].userid = <<"wechange-", last'.user>>
            /\ tasks'[Len(tasks')].groupid = db[last'.group].nextcloud_group_id
       ELSE tasks' = tasks
    ]_vars

\* A user has just left a group whose cloud app is deactivated, and the
\* removal waits in the queue.
LeaveSubmitsRemovalWitness ==
  /\ last.fn = "user_left_group_receiver_sub"
  /\ ~db[last.group].cloud_enabled
  /\ tasks # <<>>
  /\ tasks[Len(tasks)].fn = "remove_user_from_group"
  /\ tasks[Len(tasks)].state = "queued"
  /\ tasks[Len(tasks)].userid = <<"wechange-", last.user>>
  /\ tasks[Len(tasks)].groupid = db[last.group].nextcloud_group_id

\* The closure of task t returns in this step.
WrapReturns(t) ==
  /\ tasks[t].fn = WrapFn
  /\ tasks[t].state = "running"
  /\ tasks'[t].state = "returned"

\* The attempt that sent `issued` has been through the three calls of
\* initialize_nextcloud_for_group, and each returned.
Initialized(issued) ==
  /\ InOrder(issued)
  /\ issued # <<>>
  /\ issued[Len(issued)].call = "add_user_to_group"
  /\ \A a \in DOMAIN issued : issued[a].ok

\* C18 -- Feature activation: an activation event that includes the cloud
\* app submits one task, the closure for that group, and one that does not
\* include it submits nothing; the closure runs the initialization and,
\* in the attempt in which the initialization has succeeded, submits one
\* add_user_to_group task per current member of the group, for the
\* nextcloud_group_id its group instance holds; nothing else it does
\* submits a task.
ActivationAddsMembers ==
  [][/\ Handled("group_cloud_app_activated_sub") =>
          IF CloudApp \in last'.apps /\ last'.raised = ""
          THEN /\ OneSubmitted
               /\ tasks'[Len(tasks')].fn = WrapFn
               /\ tasks'[Len(tasks')].group = last'.group
          ELSE tasks' = tasks
     /\ \A t \in TaskIds :
          WrapReturns(t) =>
            LET g == tasks[t].group
                added == (Len(tasks) + 1)..Len(tasks')
            IN /\ Initialized(tasks[t].issued)
               /\ Cardinality(added) = Cardinality(members[g])
               /\ \A k \in added :
                    /\ tasks'[k].fn = "add_user_to_group"
                    /\ tasks'[k].state = "queued"
                    /\ tasks'[k].groupid = obj[tasks[t].inst].nextcloud_group_id
               /\ \A u \in members[g] :
                    \E k \in added : tasks'[k].userid = <<"wechange-", u>>
     /\ (Len(tasks') > Len(tasks) /\ events' = events) =>
          \E t \in TaskIds : WrapReturns(t)
    ]_vars

\* A closure has returned on its second attempt for a group that had a
\* member, and the member's addition was submitted after it.
ActivationAddsMembersWitness ==
  \E t \in TaskIds :
    /\ tasks[t].fn = WrapFn
    /\ tasks[t].state = "returned"
    /\ tasks[t].calls >= 2
    /\ Initialized(tasks[t].issued)
    /\ \E k \in TaskIds :
         /\ k > t
         /\ tasks[k].fn = "add_user_to_group"
         /\ tasks[k].groupid = obj[tasks[t].inst].nextcloud_group_id
         /\ \E u \in members[tasks[t].group] : tasks[k].userid = <<"wechange-", u>>

\* ------------------------- specification: events while a task is waiting

\* A display name a group is renamed to.
NewNames == { <<"b", "d">> }

\* A group is created, renamed, and has its cloud app deactivated and
\* activated again while workers run the submitted initializations whenever
\* they get to them.
NextRegen ==
  \/ \E g \in Groups : GroupCreated(g)
  \/ \E g \in created, n \in NewNames : SaveGroup(g, n)
  \/ \E g \in created : AppsDeactivated(g)
  \/ \E g \in created, apps \in Apps : AppsActivated(g, apps)
  \/ \E t \in TaskIds : StartTask(t)
  \/ \E t \in TaskIds : WakeTask(t)
  \/ \E t \in TaskIds : InitStep(t)
  \/ \E t \in TaskIds : WrapMembers(t)

\* All but one of the faults the backend may show have occurred already.
InitRegen ==
  /\ settings = [PREFIX_GROUP_FOLDERS |-> FALSE, GROUPFOLDER_QUOTA |-> UnlimitedQuota]
  /\ db = [g \in Groups |-> NewRow(g, InitName(g))]
  /\ obj = db
  /\ members = [g \in Groups |-> {}]
  /\ active = {}
  /\ nc = EmptyBackend
  /\ tasks = <<>>
  /\ faults = MaxFaults - 1
  /\ events = 0
  /\ created = {}
  /\ last = NoCall

SpecRegen == InitRegen /\ [][NextRegen]_vars

\* C19 -- nextcloud_group_id is immutable once set: whatever events occur
\* (group created, app deactivated or activated, group saved or renamed,
\* initializations retried), a persisted nextcloud_group_id that is not
\* empty is the same after every step.
GroupIdImmutable ==
  [][\A g \in Groups :
       Truthy(db[g].nextcloud_group_id) =>
         db'[g].nextcloud_group_id = db[g].nextcloud_group_id
    ]_vars

\* ------------------------------------------ specification: fallback names

\* Display names that the filter empties or reduces to digits, and one it
\* leaves with a letter.
OddNames ==
  { <<>>, <<"!", " ">>, <<"1", "2">>, <<" ", "7", "!">>, <<"1", "a">> }

\* New groups with such names, under either setting of the prefix flag.
InitFallback ==
  /\ settings \in [PREFIX_GROUP_FOLDERS : BOOLEAN, GROUPFOLDER_QUOTA : {UnlimitedQuota}]
  /\ db \in { [g \in Groups |-> NewRow(g, n[g])] : n \in [Groups -> OddNames] }
  /\ obj = db
  /\ members = [g \in Groups |-> {}]
  /\ active = {}
  /\ nc = EmptyBackend
  /\ tasks = <<>>
  /\ faults = 0
  /\ events = 0
  /\ created = {}
  /\ last = NoCall

NextFallback ==
  \E g \in Groups, field \in Fields : GenerateCall(g, field, TRUE, FALSE, FALSE)

SpecFallback == InitFallback /\ [][NextFallback]_vars

\* The display name without the characters the filter drops (all but word
\* characters, hyphens and spaces) and without the spaces around it.
Bare(name) ==
  Strip(SelectSeq(Strip(name), LAMBDA c : IsWordChar(c) \/ c = "-" \/ c = " "))

AllDigits(s) == s # <<>> /\ \A k \in DOMAIN s : s[k] \in Digits

\* C21 -- Safe fallback naming: a generating call that returns gives back a
\* name that is neither empty nor made of digits only; with the prefix flag
\* off, a group whose filtered name is empty gets "Folder" and one whose
\* filtered name is made of digits only gets "Folder" followed by those
\* digits (each with a collision suffix where the name is taken).
FallbackNaming ==
  [][(/\ last'.fn = GenFn
      /\ events' = events + 1
      /\ last'.raised = ""
      /\ last'.force_generate \/ ~Truthy(last'.instance[last'.field])) =>
       \E bare \in {Bare(last'.instance.name)} :
         /\ last'.ret # <<>>
         /\ ~AllDigits(last'.ret)
         /\ (~settings.PREFIX_GROUP_FOLDERS /\ (bare = <<>> \/ AllDigits(bare))) =>
              last'.ret = ExpectedName(db, last'.group, last'.field,
                                       <<"F", "o", "l", "d", "e", "r">> \o bare)
    ]_vars

\* The generator has returned "Folder12" for a group named "12".
FallbackNamingWitness ==
  /\ last.fn = GenFn
  /\ last.raised = ""
  /\ last.instance.name = <<"1", "2">>
  /\ last.ret = <<"F", "o", "l", "d", "e", "r", "1", "2">>

\* ------------------------------- specification: create_group_folder alone

\* A group whose identifiers were generated and whose folder is yet to be
\* made.
FolderName(g) == IF g = 1 THEN <<"a", "b">> ELSE Rep("b", g)

NamedRow(g) ==
  [NewRow(g, FolderName(g)) EXCEPT !.nextcloud_group_id = FolderName(g),
                                   !.nextcloud_groupfolder_name = FolderName(g)]

\* COSINNUS_CLOUD_NEXTCLOUD_GROUPFOLDER_QUOTA: not set, unlimited, a size.
FolderQuotaSettings == { 0, UnlimitedQuota, 1024 }

\* The groups exist in the backend; the folder name of group 1 is taken.
InitFolder ==
  /\ settings \in [PREFIX_GROUP_FOLDERS : {FALSE}, GROUPFOLDER_QUOTA : FolderQuotaSettings]
  /\ db = [g \in Groups |-> NamedRow(g)]
  /\ obj = db
  /\ members = [g \in Groups |-> {}]
  /\ active = {}
  /\ nc = [OrphanBackend EXCEPT !.groups = { FolderName(g) : g \in Groups }]
  /\ tasks = <<>>
  /\ faults = MaxFaults - 1
  /\ events = 0
  /\ created = Groups
  /\ last = NoCall

\* submit_with_retry(nextcloud.create_group_folder, name, group_id, group)
SubmitFolder(g) ==
  /\ \A t \in TaskIds : tasks[t].group # g
  /\ Cardinality({ t \in TaskIds : ~Finished(t) }) < MaxCreated
  /\ tasks' = submit_with_retry(tasks, FolderFn, g, <<>>, obj[g].nextcloud_group_id)
  /\ last' = [fn |-> "submit_with_retry", raised |-> "",
              busy |-> Cardinality(InFlight)]
  /\ UNCHANGED <<settings, created, db, obj, members, active, nc, faults, events>>

NextFolder ==
  \/ \E g \in Groups : SubmitFolder(g)
  \/ \E t \in TaskIds : StartTask(t)
  \/ \E t \in TaskIds : WakeTask(t)
  \/ \E t \in TaskIds : InitListFolders(t)
  \/ \E t \in TaskIds : InitCreateFolder(t)
  \/ \E t \in TaskIds : InitGrant(t)
  \/ \E t \in TaskIds : InitQuota(t)

SpecFolder == InitFolder /\ [][NextFolder]_vars

\* C22 -- Naming conflicts are not retried: when create_group_folder, run
\* by the executor with raise_on_existing_name=True, finds the name taken
\* and raises ValueError (every request answered), the task ends with that
\* error at once, with no pause and no further attempt.
NamingConflictNotRetried ==
  [][\A t \in TaskIds :
       (/\ ListFoldersStep(t)
        /\ raise_on_existing_name(tasks[t])
        /\ MountedAt(t) # {}
        /\ faults' = faults) =>
          /\ tasks'[t].state = "raised"
          /\ tasks'[t].calls = 1
    ]_vars

\* The requests of the running or last attempt of task t that were answered.
Answered(t) ==
  { tasks[t].issued[k].call : k \in { j \in DOMAIN tasks[t].issued : tasks[t].issued[j].ok } }

\* The requests of that attempt, answered or not.
Sent(t) == { tasks[t].issued[k].call : k \in DOMAIN tasks[t].issued }

\* C26 -- Incremental persistence: from the moment the folder-creation
\* request of an attempt is answered, whatever the calls after it do, the
\* group's saved nextcloud_groupfolder_id is the id of a backend folder
\* mounted at the group's folder name.
IncrementalPersistence ==
  \A t \in TaskIds :
    "create_folder" \in Answered(t) =>
      \E id \in {db[tasks[t].group].nextcloud_groupfolder_id} :
        /\ id \in DOMAIN nc.folders
        /\ nc.folders[id].mount_point = db[tasks[t].group].nextcloud_groupfolder_name
        /\ obj[tasks[t].inst].nextcloud_groupfolder_id = id

\* The folder was made and its id saved, the grant request after it failed,
\* and the attempt is over.
IncrementalPersistenceWitness ==
  \E t \in TaskIds :
    /\ tasks[t].state = "sleeping"
    /\ "create_folder" \in Answered(t)
    /\ "grant" \in Sent(t) \ Answered(t)
    /\ nc.folders[db[tasks[t].group].nextcloud_groupfolder_id].groups = {}

\* C29 -- Quota sentinel: an attempt that made a folder and got it granted
\* sends the quota request if and only if a quota is configured and is not
\* -3; no attempt sends it otherwise.
QuotaSentinel ==
  \A t \in TaskIds :
    /\ "quota" \in Sent(t) =>
         /\ "grant" \in Answered(t)
         /\ settings.GROUPFOLDER_QUOTA \notin {0, -3}
    /\ ("grant" \in Answered(t) /\ settings.GROUPFOLDER_QUOTA \notin {0, -3}) =>
         \/ "quota" \in Sent(t)
         \/ tasks[t].state = "running" /\ tasks[t].pc = "quota"

\* An attempt has returned after the quota request, and the new folder has
\* the configured quota.
QuotaSentinelWitness ==
  \E t \in TaskIds :
    /\ tasks[t].state = "returned"
    /\ "quota" \in Answered(t)
    /\ nc.folders[db[tasks[t].group].nextcloud_groupfolder_id].quota = 1024

\* ---------------------------------- specification: response classification

\* OCS status codes: ok, the two the group calls answer, server error and
\* unauthorised.
StatusCodes == { 100, 102, 103, 996, 997 }

\* What requests may hand to _response_or_raise: .ok or not, and a body that
\* is no JSON or an OCS envelope with its status, code and data.
HttpResponses ==
  [http_ok : BOOLEAN, json : {TRUE}, status : {"ok", "failure"},
   statuscode : StatusCodes, data : BOOLEAN]
  \cup [http_ok : BOOLEAN, json : {FALSE}, status : {"failure"},
        statuscode : {0}, data : {FALSE}]

InitClassify == InitRetry

\* nextcloud.py:73-89 applied to one response.
Classify(r) ==
  /\ events < MaxEvents
  /\ events' = events + 1
  /\ \E c \in {response_or_raise(r)} :
       last' = [fn |-> "_response_or_raise", response |-> r, raised |-> c.raised,
                statuscode |-> c.statuscode, data |-> c.data]
  /\ UNCHANGED <<settings, created, db, obj, members, active, nc, tasks, faults>>

NextClassify == \E r \in HttpResponses : Classify(r)

SpecClassify == InitClassify /\ [][NextClassify]_vars

\* C23 -- Response classification: a response that is not ok at the HTTP
\* level, or whose body is no JSON, ends in OCSException with code -1; a JSON
\* body whose status is not "ok" ends in OCSException with the body's code;
\* an OCSResponse is returned only for a body whose status is "ok".
ResponseClassification ==
  last.fn = "_response_or_raise" =>
    /\ (~last.response.http_ok \/ ~last.response.json) =>
         /\ last.raised = "OCSException"
         /\ last.statuscode = -1
    /\ (last.response.http_ok /\ last.response.json
          /\ last.response.status # "ok") =>
         /\ last.raised = "OCSException"
         /\ last.statuscode = last.response.statuscode
    /\ last.raised = "" => last.response.status = "ok"

\* ------------------------------------ specification: unanswered requests

\* nextcloud.py:154-173: requests.post / requests.delete are called without
\* a timeout, so a request the backend never answers keeps the worker in
\* the socket read; nothing wakes it.
NoAnswer(t) ==
  /\ tasks[t].state = "running"
  /\ tasks[t].fn \in {"add_user_to_group", "remove_user_from_group"}
  /\ tasks[t].pc = "call"
  /\ tasks' = [tasks EXCEPT ![t] = [Issue(@, tasks[t].fn, "no answer") EXCEPT !.pc = "recv"]]
  /\ UNCHANGED <<settings, created, db, obj, members, active, nc, faults, events, last>>

\* The steps of the workers.
WorkerStep ==
  \E t \in TaskIds :
    StartTask(t) \/ WakeTask(t) \/ RunAddUser(t) \/ RunRemoveUser(t)

NextHang ==
  \/ \E u \in Users, g \in Groups : UserJoined(u, g)
  \/ \E u \in Users, g \in Groups : UserLeft(u, g)
  \/ \E t \in TaskIds : StartTask(t)
  \/ \E t \in TaskIds : WakeTask(t)
  \/ \E t \in TaskIds : RunAddUser(t)
  \/ \E t \in TaskIds : RunRemoveUser(t)
  \/ \E t \in TaskIds : NoAnswer(t)

\* The pool's threads keep running: a worker that can take a step takes one.
SpecHang == InitMember /\ [][NextHang]_vars /\ WF_vars(WorkerStep)

\* C24 -- Every submitted task terminates: whatever the backend does with
\* the requests, each submitted task eventually returns or gives up.
EveryTaskTerminates ==
  \A k \in 1..MaxEvents : (k \in TaskIds) ~> (k \in TaskIds /\ Finished(k))

\* ------------------------------------ specification: concurrent generation

\* hooks.py:251: generate_group_nextcloud_id(group, save=False) queries the
\* table and sets the name on the instance.
RaceGenerateId(t) ==
  /\ RunningInit(t, "generate")
  /\ \E g \in {tasks[t].group}, i \in {tasks[t].inst} :
     \E a \in {generate_group_nextcloud_field(db, nc, obj[i], g, "nextcloud_group_id",
                                               FALSE, FALSE, "none")} :
       /\ obj' = [obj EXCEPT ![i] = a.obj]
       /\ tasks' = [tasks EXCEPT ![t].pc = "generate_folder_name"]
  /\ UNCHANGED <<settings, created, db, members, active, nc, faults, events, last>>

\* hooks.py:252: generate_group_nextcloud_groupfolder_name(group, save=False)
RaceGenerateFolderName(t) ==
  /\ RunningInit(t, "generate_folder_name")
  /\ \E g \in {tasks[t].group}, i \in {tasks[t].inst} :
     \E b \in {generate_group_nextcloud_field(db, nc, obj[i], g,
                                               "nextcloud_groupfolder_name",
                                               FALSE, FALSE, "none")} :
       /\ obj' = [obj EXCEPT ![i] = b.obj]
       /\ tasks' = [tasks EXCEPT ![t].pc = "save_names"]
  /\ UNCHANGED <<settings, created, db, members, active, nc, faults, events, last>>

\* hooks.py:253: group.save(update_fields=[...]), which runs the rename hook.
RaceSaveNames(t) ==
  /\ RunningInit(t, "save_names")
  /\ \E f \in AnyFault :
       \E g \in {tasks[t].group}, i \in {tasks[t].inst} :
       \E s \in {Save(db, nc, obj[i], g, Fields, f)} :
          /\ Inject(f, s.renames > 0)
          /\ db' = s.db
          /\ nc' = s.nc
          /\ obj' = [obj EXCEPT ![i] = s.obj]
          /\ tasks' = [tasks EXCEPT ![t] =
                         IF s.raised = "" THEN [@ EXCEPT !.pc = "create_group"]
                         ELSE OnException(@)]
  /\ UNCHANGED <<settings, created, members, active, events, last>>

\* Every group was created with the same display name, and each one's
\* initialization is waiting for a worker.  The budget of failing requests
\* is used up.
RECURSIVE Submitted(_)
Submitted(n) ==
  IF n = 0 THEN <<>> ELSE submit_with_retry(Submitted(n - 1), InitFn, n, <<>>, <<>>)

InitRace ==
  /\ settings \in [PREFIX_GROUP_FOLDERS : {FALSE}, GROUPFOLDER_QUOTA : QuotaSettings]
  /\ db = [g \in Groups |-> NewRow(g, <<"a", "b">>)]
  /\ obj = db
  /\ members = [g \in Groups |-> {}]
  /\ active = {}
  /\ nc = EmptyBackend
  /\ tasks = Submitted(NumGroups)
  /\ faults = MaxFaults
  /\ events = 0
  /\ created = Groups
  /\ last = NoCall

\* Every request is answered, so no attempt fails and none is repeated.
NextRace ==
  \/ \E t \in TaskIds : StartTask(t)
  \/ \E t \in TaskIds : RaceGenerateId(t)
  \/ \E t \in TaskIds : RaceGenerateFolderName(t)
  \/ \E t \in TaskIds : RaceSaveNames(t)
  \/ \E t \in TaskIds : InitCreateGroup(t)
  \/ \E t \in TaskIds : InitListFolders(t)
  \/ \E t \in TaskIds : InitCreateFolder(t)
  \/ \E t \in TaskIds : InitGrant(t)
  \/ \E t \in TaskIds : InitQuota(t)
  \/ \E t \in TaskIds : InitAddAdmin(t)

SpecRace == InitRace /\ [][NextRace]_vars

\* C25 -- Name-allocation race: each generator call made for a group that
\* has no name yet returns a name that no other group holds in the table at
\* the moment of its query, and saves nothing: the save comes in a later
\* step.  Initializations of groups with the same candidate name that
\* interleave reach a state in which two groups hold the same identifier.
AllocationRace ==
  [][\A t \in TaskIds :
       /\ (/\ RunningInit(t, "generate")
           /\ tasks'[t].pc = "generate_folder_name"
           /\ ~Truthy(obj[tasks[t].inst].nextcloud_group_id)) =>
            /\ ~Collides(db, tasks[t].group, "nextcloud_group_id",
                         obj'[tasks[t].inst].nextcloud_group_id)
            /\ db' = db
       /\ (/\ RunningInit(t, "generate_folder_name")
           /\ tasks'[t].pc = "save_names"
           /\ ~Truthy(obj[tasks[t].inst].nextcloud_groupfolder_name)) =>
            /\ ~Collides(db, tasks[t].group, "nextcloud_groupfolder_name",
                         obj'[tasks[t].inst].nextcloud_groupfolder_name)
            /\ db' = db
    ]_vars

\* Two groups hold the same nextcloud_group_id in the table.
AllocationRaceWitness ==
  \E g, h \in Groups :
    /\ g # h
    /\ Truthy(db[g].nextcloud_group_id)
    /\ db[g].nextcloud_group_id = db[h].nextcloud_group_id

\* ------------------------------------------ specification: user accounts

\* hooks.py:281-286
user_deactivated(ts, user) ==
  submit_with_retry(ts, "disable_user", 0, get_nc_user_id(user), <<>>)

\* hooks.py:288-293
user_activated(ts, user) ==
  submit_with_retry(ts, "enable_user", 0, get_nc_user_id(user), <<>>)

\* signals.user_deactivated, after the platform deactivated the user.
UserDeactivated(u) ==
  /\ events < MaxEvents
  /\ u \in active
  /\ active' = active \ {u}
  /\ tasks' = user_deactivated(tasks, u)
  /\ events' = events + 1
  /\ last' = [fn |-> "user_deactivated", raised |-> "", user |-> u]
  /\ UNCHANGED <<settings, created, db, obj, members, nc, faults>>

\* signals.user_activated, after the platform reactivated the user.
UserActivated(u) ==
  /\ events < MaxEvents
  /\ u \notin active
  /\ active' = active \cup {u}
  /\ tasks' = user_activated(tasks, u)
  /\ events' = events + 1
  /\ last' = [fn |-> "user_activated", raised |-> "", user |-> u]
  /\ UNCHANGED <<settings, created, db, obj, members, nc, faults>>

\* nextcloud.disable_user run by a worker.
RunDisableUser(t) ==
  /\ Running(t, "disable_user", "call")
  /\ \E f \in AnyFault :
       LET c == disable_user(nc, tasks[t].userid, f) IN
       /\ Inject(f, TRUE)
       /\ nc' = c.nc
       /\ tasks' = [tasks EXCEPT ![t] = IF c.raised = "" THEN OnReturn(@)
                                        ELSE OnException(@)]
  /\ UNCHANGED <<settings, created, db, obj, members, active, events, last>>

\* nextcloud.enable_user run by a worker.
RunEnableUser(t) ==
  /\ Running(t, "enable_user", "call")
  /\ \E f \in AnyFault :
       LET c == enable_user(nc, tasks[t].userid, f) IN
       /\ Inject(f, TRUE)
       /\ nc' = c.nc
       /\ tasks' = [tasks EXCEPT ![t] = IF c.raised = "" THEN OnReturn(@)
                                        ELSE OnException(@)]
  /\ UNCHANGED <<settings, created, db, obj, members, active, events, last>>

NextUser ==
  \/ \E u \in Users : UserDeactivated(u)
  \/ \E u \in Users : UserActivated(u)
  \/ \E t \in TaskIds : StartTask(t)
  \/ \E t \in TaskIds : WakeTask(t)
  \/ \E t \in TaskIds : RunDisableUser(t)
  \/ \E t \in TaskIds : RunEnableUser(t)

\* The users are active and have their accounts in the backend, enabled.
SpecUser == InitMember /\ [][NextUser]_vars

\* C30 -- Convergence of the user enabled state: once every submitted task
\* has completed successfully, a user's remote account is enabled iff the
\* platform user is active.
EnabledStateConverges ==
  AllTasksSucceeded =>
    \A u \in Users : (get_nc_user_id(u) \notin nc.disabled <=> u \in active)

\* --------------------------------------- specification: batch commands

\* GET /cloud/users
NcListUsers(ncv) == [resp |-> OkResponse(ncv.users), nc |-> ncv]

\* POST /cloud/users: 102 when the user exists.
NcCreateUser(ncv, userid) ==
  IF userid \in ncv.users
  THEN [resp |-> FailureResponse(AlreadyExists), nc |-> ncv]
  ELSE [resp |-> OkResponse(<<>>), nc |-> [ncv EXCEPT !.users = @ \cup {userid}]]

\* nextcloud.py:379-390
list_all_users(ncv, f) == Call(f, NcListUsers(ncv), ncv)

\* hooks.py:122-128, nextcloud.py:102-124
create_user_from_obj(ncv, u, f) == Call(f, NcCreateUser(ncv, get_nc_user_id(u)), ncv)

\* The users the user command goes through: the first has an account.
BatchUsers == 1..(NumUsers + 2)

UsersCommand == "sync_nextcloud_users"
GroupsCommand == "sync_nextcloud_groups"

\* The except clauses of an item re-raising whatever DEBUG says.
CountOrRaiseAlways(raised, statuscode, skip_exists) ==
  IF raised = "" THEN "ok"
  ELSE IF raised = "OCSException"
  THEN (IF skip_exists /\ statuscode = AlreadyExists THEN "ignored" ELSE "error")
  ELSE "raise"

\* sync_nextcloud_users.py:48-58, sync_nextcloud_groups.py:61-71, 82-93,
\* 105-116: an OCSException is counted (code 102 aside where the clause says
\* so); any other exception is re-raised under DEBUG and counted otherwise.
CountOrRaise(raised, statuscode, skip_exists) ==
  IF raised = "" THEN "ok"
  ELSE IF raised = "OCSException"
  THEN (IF skip_exists /\ statuscode = AlreadyExists THEN "ignored" ELSE "error")
  ELSE IF settings.DEBUG THEN "raise"
  ELSE "error"

\* The command's locals as handle() starts; first_error is the item at which
\* the first error was counted and folder_calls the number of times the
\* command has called create_group_folder.
Started(cmd, total) ==
  [fn |-> cmd, pc |-> IF cmd = UsersCommand THEN "list" ELSE "loop",
   raised |-> "", total |-> total, existing |-> {},
   counter |-> 0, created |-> 0, folders_created |-> 0, users_added |-> 0,
   errors |-> 0, first_error |-> 0, folder_calls |-> 0, summary |-> FALSE]

\* An exception left the loop: the outer except re-raises it under DEBUG and
\* drops it otherwise; the command ends without its summary.
Escaped(c, raised) ==
  [c EXCEPT !.pc = IF settings.DEBUG THEN "raised" ELSE "dropped",
            !.raised = raised]

\* errors += 1
Counted(c) ==
  [c EXCEPT !.errors = @ + 1,
            !.first_error = IF c.errors = 0 THEN c.counter ELSE @]

\* sync_nextcloud_users.py:38-39
SyncUsersList ==
  /\ last.fn = UsersCommand
  /\ last.pc = "list"
  /\ \E f \in AnyFault :
       \E c \in {list_all_users(nc, f)} :
         /\ Inject(f, TRUE)
         /\ last' = IF c.raised # "" THEN Escaped(last, c.raised)
                    ELSE [last EXCEPT !.pc = "loop", !.existing = c.data]
  /\ UNCHANGED <<settings, created, db, obj, members, active, nc, tasks, events>>

\* sync_nextcloud_users.py:40-63: one pass of the loop.
SyncUsersItem ==
  /\ last.fn = UsersCommand
  /\ last.pc = "loop"
  /\ last.counter < last.total
  /\ \E f \in AnyFault :
       \E u \in {last.counter + 1} :
       \E l \in {[last EXCEPT !.counter = u]} :
       \E called \in {get_nc_user_id(u) \notin last.existing} :
       \E c \in {create_user_from_obj(nc, u, f)} :
       \E h \in {IF called THEN CountOrRaise(c.raised, c.statuscode, TRUE) ELSE "ignored"} :
         /\ Inject(f, called)
         /\ nc' = IF called THEN c.nc ELSE nc
         /\ last' = CASE h = "ok" -> [l EXCEPT !.created = @ + 1]
                      [] h = "ignored" -> l
                      [] h = "error" -> Counted(l)
                      [] h = "raise" -> Escaped(l, c.raised)
  /\ UNCHANGED <<settings, created, db, obj, members, active, tasks, events>>

\* The members of a group in the order the command takes them.
RECURSIVE Ordered(_)
Ordered(S) ==
  IF S = {} THEN <<>>
  ELSE LET u == CHOOSE x \in S : \A y \in S : x <= y
       IN <<u>> \o Ordered(S \ {u})

\* sync_nextcloud_groups.py:96-116: add_user_to_group for each id, from the
\* k-th on; fs[k] is what the backend answers to the k-th request, and sent
\* is the number of requests made.
RECURSIVE AddMembers(_, _, _, _, _, _)
AddMembers(c, ncv, ids, groupid, fs, k) ==
  IF k > Len(ids) \/ c.pc # "loop" THEN [cmd |-> c, nc |-> ncv, sent |-> k - 1]
  ELSE LET a == add_user_to_group(ncv, ids[k], groupid, fs[k])
           h == CountOrRaise(a.raised, a.statuscode, FALSE)
       IN AddMembers(CASE h = "ok" -> [c EXCEPT !.users_added = @ + 1]
                       [] h = "error" -> Counted(c)
                       [] h = "raise" -> Escaped(c, a.raised),
                     a.nc, ids, groupid, fs, k + 1)

\* sync_nextcloud_groups.py:57-93: create_group, and for a group it counts
\* as created the call of create_group_folder, which lacks the `group`
\* argument (nextcloud.py:194) and so raises TypeError before any request.
CreateGroupAndFolder(c, ncv, groupid, f) ==
  LET a == create_group(ncv, groupid, f)
      h == CountOrRaise(a.raised, a.statuscode, TRUE)
      c1 == CASE h = "ok" -> [c EXCEPT !.created = @ + 1]
              [] h = "ignored" -> c
              [] h = "error" -> Counted(c)
              [] h = "raise" -> Escaped(c, a.raised)
      g1 == CountOrRaise("TypeError", 0, FALSE)
      c2 == IF h # "ok" THEN c1
            ELSE IF g1 = "raise"
            THEN Escaped([c1 EXCEPT !.folder_calls = @ + 1], "TypeError")
            ELSE Counted([c1 EXCEPT !.folder_calls = @ + 1])
  IN [cmd |-> c2, nc |-> a.nc]

\* sync_nextcloud_groups.py:47-119: one pass of the loop.
SyncGroupsItem ==
  /\ last.fn = GroupsCommand
  /\ last.pc = "loop"
  /\ last.counter < last.total
  /\ \E g \in {last.counter + 1} :
     \E l \in {[last EXCEPT !.counter = g]} :
       IF ~db[g].cloud_enabled
       THEN /\ last' = l
            /\ UNCHANGED <<db, nc, faults>>
       ELSE
         \E gen \in {generate_group_nextcloud_field(db, nc, db[g], g, "nextcloud_group_id",
                                                   TRUE, FALSE, "none")} :
         \E ids \in {[k \in 1..Cardinality(members[g]) |->
                        get_nc_user_id(Ordered(members[g])[k])] \o <<admin>>} :
         \E f \in AnyFault, fs \in [1..Len(ids) -> AnyFault] :
         \E n \in {Injected(f) + Cardinality({k \in 1..Len(ids) : fs[k] # "none"})} :
         \E cg \in {CreateGroupAndFolder(l, gen.nc, gen.ret, f)} :
         \E am \in {AddMembers(cg.cmd, cg.nc, ids, gen.ret, fs, 1)} :
           /\ faults + n <= MaxFaults
           /\ \A k \in DOMAIN fs : k > am.sent => fs[k] = "none"
           /\ faults' = faults + n
           /\ db' = gen.db
           /\ nc' = am.nc
           /\ last' = IF gen.raised # "" THEN Escaped(l, gen.raised) ELSE am.cmd
  /\ UNCHANGED <<settings, created, obj, members, active, tasks, events>>

\* sync_nextcloud_users.py:64-66, sync_nextcloud_groups.py:121-123: the loop
\* is over and "Done! ..." is written with the counts.
SyncDone ==
  /\ last.fn \in {UsersCommand, GroupsCommand}
  /\ last.pc = "loop"
  /\ last.counter = last.total
  /\ last' = [last EXCEPT !.pc = "done", !.summary = TRUE]
  /\ UNCHANGED <<settings, created, db, obj, members, active, nc, tasks, faults, events>>

\* Group 1 is initialized in the backend, the others are new; the first user
\* has an account; one of the two commands starts.
InitBatch ==
  /\ settings \in [PREFIX_GROUP_FOLDERS : {FALSE}, GROUPFOLDER_QUOTA : {UnlimitedQuota},
                    DEBUG : BOOLEAN]
  /\ db = [g \in Groups |-> IF g = 1 THEN InitializedRow(g) ELSE NewRow(g, <<"b">>)]
  /\ obj = db
  /\ members \in [Groups -> SUBSET Users]
  /\ active = BatchUsers
  /\ nc = [InitializedBackend EXCEPT !.users = {admin, get_nc_user_id(1)}]
  /\ tasks = <<>>
  /\ faults = 0
  /\ events = 0
  /\ created = Groups
  /\ last \in {Started(UsersCommand, Cardinality(BatchUsers)),
                Started(GroupsCommand, NumGroups)}

NextBatch ==
  \/ SyncUsersList
  \/ SyncUsersItem
  \/ SyncGroupsItem
  \/ SyncDone

SpecBatch == InitBatch /\ [][NextBatch]_vars

BatchCommands == {UsersCommand, GroupsCommand}

FolderStepOnlyForNewGroups ==
  [][(/\ last.fn = GroupsCommand
      /\ last.pc = "loop"
      /\ last' # last
      /\ last'.counter = last.counter + 1) =>
        LET g == last'.counter IN
        (db[g].cloud_enabled /\ db'[g].nextcloud_group_id \in nc.groups) =>
          last'.folder_calls = last.folder_calls
    ]_vars

\* ----------------------------- specification: joining during initialization

InitJoin ==
  /\ settings \in [PREFIX_GROUP_FOLDERS : {FALSE}, GROUPFOLDER_QUOTA : QuotaSettings]
  /\ db = [g \in Groups |-> NewRow(g, FolderName(g))]
  /\ obj = db
  /\ members = [g \in Groups |-> {}]
  /\ active = Users
  /\ nc = [EmptyBackend EXCEPT !.users = InitializedBackend.users]
  /\ tasks = <<>>
  /\ faults = MaxFaults - 1
  /\ events = 0
  /\ created = {}
  /\ last = NoCall

\* signals.user_joined_group for a group whose creation signal has been sent.
JoinCreated(u, g) ==
  /\ g \in created
  /\ UserJoined(u, g)

NextJoin ==
  \/ \E g \in Groups : GroupCreated(g)
  \/ \E u \in Users, g \in Groups : JoinCreated(u, g)
  \/ \E t \in TaskIds : StartTask(t)
  \/ \E t \in TaskIds : WakeTask(t)
  \/ \E t \in TaskIds : InitStep(t)
  \/ \E t \in TaskIds : RunAddUser(t)

SpecJoin == InitJoin /\ [][NextJoin]_vars

\* C31 -- Members who join during initialization are not lost: a user who
\* joined a cloud-enabled group after its creation signal was sent is, once
\* the initialization task and every other task have returned, a member of
\* the remote group.
JoinDuringInitializationKept ==
  \A g \in created :
    ( /\ db[g].cloud_enabled
      /\ AllTasksSucceeded
      /\ \E t \in TaskIds : tasks[t].fn = InitFn /\ tasks[t].group = g )
    => \A u \in members[g] :
         <<get_nc_user_id(u), db[g].nextcloud_group_id>> \in nc.members


\* ------------------------------------ specification: saves of kept names

\* The identifier and folder name the groups were given when they were
\* initialized one after the other, in the order of their numbers: the
\* display names collide, so every group but the first carries a suffix.
SuffixedName(g) ==
  IF g = 1 THEN InitName(g) ELSE InitName(g) \o <<" ">> \o Decimal(g)

SuffixedRow(g) ==
  [NewRow(g, InitName(g)) EXCEPT !.nextcloud_group_id = SuffixedName(g),
                                 !.nextcloud_groupfolder_name = SuffixedName(g),
                                 !.nextcloud_groupfolder_id = g]

SuffixedBackend ==
  [groups |-> { SuffixedName(g) : g \in Groups },
   members |-> { <<admin, SuffixedName(g)>> : g \in Groups },
   folders |-> [g \in Groups |-> [mount_point |-> SuffixedName(g),
                                  groups |-> {SuffixedName(g)},
                                  quota |-> UnlimitedQuota]],
   users |-> {admin} \cup {get_nc_user_id(u) : u \in Users},
   disabled |-> {}]

InitKept ==
  /\ settings = [PREFIX_GROUP_FOLDERS |-> FALSE, GROUPFOLDER_QUOTA |-> UnlimitedQuota]
  /\ db = [g \in Groups |-> SuffixedRow(g)]
  /\ obj = db
  /\ members = [g \in Groups |-> {}]
  /\ active = Users
  /\ nc = SuffixedBackend
  /\ tasks = <<>>
  /\ faults = 0
  /\ events = 0
  /\ created = Groups
  /\ last = NoCall

\* The groups whose display name no request of this specification changes.
KeptGroups == Groups \ {1}

\* Group 1 is renamed at will; the other groups are only saved again, with
\* the display name they had when their folder name was assigned.
NextKept ==
  \/ \E n \in DisplayNames : SaveGroup(1, n)
  \/ \E g \in KeptGroups : SaveGroup(g, db[g].name)

SpecKept == InitKept /\ [][NextKept]_vars

\* C32 -- Rename only on name change: a save of a group whose display name
\* has not changed since its folder name was assigned issues no rename call,
\* whatever has happened to the other groups in the meantime.
RenameOnlyOnNameChange ==
  [][(events' = events + 1 /\ last'.fn = "save" /\ last'.group \in KeptGroups) =>
       last'.called_with = None
    ]_vars


\* C33 -- The rename receiver terminates: the save it makes after a
\* confirmed rename runs the receiver once more, and that nested run makes
\* no call and no save; so one save of a group causes at most one rename
\* call and at most two runs of the receiver, the second only after a
\* confirmed rename.
RenameHookTerminates ==
  last.fn = "save" =>
    /\ last.renames <= 1
    /\ last.hooks <= 2
    /\ last.hooks = 2 => (last.renames = 1 /\ last.result = TRUE /\ last.raised = "")
    /\ (last.renames = 1 /\ last.result = TRUE) =>
         /\ last.hooks = 2
         /\ last.row.nextcloud_groupfolder_name = last.called_with

\* A save was followed by a confirmed rename, and so by the nested run.
RenameHookTerminatesWitness ==
  /\ last.fn = "save"
  /\ last.renames = 1
  /\ last.result = TRUE
  /\ last.hooks = 2
  /\ last.row.nextcloud_groupfolder_name = last.called_with


\* ----------------------------- create_group_folder finding the name taken

\* Task t, running create_group_folder as it was submitted, without the
\* flag (so with raise_on_existing_name=True), lists the folders, is
\* answered, and finds one mounted at its name.
NameTakenStep(t) ==
  /\ ListFoldersStep(t)
  /\ tasks[t].fn = FolderFn
  /\ MountedAt(t) # {}
  /\ faults' = faults

\* The call ends with ValueError after its one request, which the backend
\* answered, and the backend is as it was.
ConflictRaised(t) ==
  /\ tasks'[t].state \in {"sleeping", "raised"}
  /\ tasks'[t].failed = tasks[t].failed + 1
  /\ tasks'[t].issued = Append(tasks[t].issued, [call |-> "list_folders", ok |-> TRUE])
  /\ nc' = nc

\* C34 as stated -- create_group_folder with raise_on_existing_name=True,
\* finding a folder mounted at the name, raises the naming-conflict error,
\* sends no creation, grant or quota request and leaves the group record
\* unchanged.
NamingConflictLeavesRecord ==
  [][\A t \in TaskIds :
       NameTakenStep(t) => (ConflictRaised(t) /\ db' = db)
    ]_vars

\* C34 -- create_group_folder with raise_on_existing_name=True, finding a
\* folder mounted at the name, raises the naming-conflict error and sends no
\* creation, grant or quota request; a group that has no folder id is first
\* given the id of the first folder found, on the instance and in the
\* table, and nothing else of the record changes.
NamingConflictAdoptsThenRaises ==
  [][\A t \in TaskIds :
       NameTakenStep(t) =>
         LET g == tasks[t].group
             i == tasks[t].inst
             found == FirstEntry(MountedAt(t))
             id == IF obj[i].nextcloud_groupfolder_id = NoId
                   THEN found ELSE obj[i].nextcloud_groupfolder_id
         IN /\ ConflictRaised(t)
            /\ obj' = [obj EXCEPT ![i].nextcloud_groupfolder_id = id]
            /\ db' = IF obj[i].nextcloud_groupfolder_id = NoId
                     THEN [db EXCEPT ![g].nextcloud_groupfolder_id = found]
                     ELSE db
    ]_vars

\* The call found the name taken and raised, and the group now points to
\* the folder found, which the call neither made nor granted.
NamingConflictAdoptsThenRaisesWitness ==
  \E t \in TaskIds :
    /\ tasks[t].fn = FolderFn
    /\ tasks[t].state = "sleeping"
    /\ tasks[t].issued = <<[call |-> "list_folders", ok |-> TRUE]>>
    /\ db[tasks[t].group].nextcloud_groupfolder_id = 1
    /\ nc.folders[1].groups = {}
    /\ Len(nc.folders) = 1


\* C35 -- nextcloud_groupfolder_id is set once: whatever initializations
\* (retried or repeated by activations of the app), renames and saves
\* occur, the backend being changed by this system only, a persisted
\* nextcloud_groupfolder_id that is set is the same after every step.
FolderIdSetOnce ==
  [][\A g \in Groups :
       db[g].nextcloud_groupfolder_id # NoId =>
         db'[g].nextcloud_groupfolder_id = db[g].nextcloud_groupfolder_id
    ]_vars


\* ------------------------- specification: activation with the backend down

\* Groups with members whose cloud app has never been active.
InitActivate ==
  /\ settings = [PREFIX_GROUP_FOLDERS |-> FALSE, GROUPFOLDER_QUOTA |-> UnlimitedQuota]
  /\ db = [g \in Groups |-> [NewRow(g, FolderName(g)) EXCEPT !.cloud_enabled = FALSE]]
  /\ obj = db
  /\ members = [g \in Groups |-> Users]
  /\ active = Users
  /\ nc = [EmptyBackend EXCEPT !.users = InitializedBackend.users]
  /\ tasks = <<>>
  /\ faults = MaxFaults - 1
  /\ events = 0
  /\ created = Groups
  /\ last = NoCall

\* The closures that have not finished.
OpenClosures == { t \in TaskIds : tasks[t].fn = WrapFn /\ ~Finished(t) }

\* An activation of the cloud app, no closure being under way.
ActivateCloud(g) ==
  /\ OpenClosures = {}
  /\ AppsActivated(g, {CloudApp})

\* hooks.py:262 while the backend cannot be reached: the create_group
\* request of the closure raises, as often as it is made.
BackendDown(t) ==
  /\ RunningInit(t, "create_group")
  /\ tasks[t].fn = WrapFn
  /\ tasks' = [tasks EXCEPT ![t] = OnException(Issue(@, "create_group", "ConnectionError"))]
  /\ UNCHANGED <<settings, created, db, obj, members, active, nc, faults, events, last>>

NextActivate ==
  \/ \E g \in Groups : ActivateCloud(g)
  \/ \E t \in TaskIds : tasks[t].fn = WrapFn /\ StartTask(t)
  \/ \E t \in TaskIds : WakeTask(t)
  \/ \E t \in TaskIds : InitStep(t)
  \/ \E t \in TaskIds : BackendDown(t)
  \/ \E t \in TaskIds : WrapMembers(t)

SpecActivate == InitActivate /\ [][NextActivate]_vars

\* The additions submitted so far.
MemberTasks == { t \in TaskIds : tasks[t].fn = "add_user_to_group" }

\* The closures whose initialization has succeeded and which have returned.
ReturnedClosures ==
  { t \in TaskIds : tasks[t].fn = WrapFn /\ tasks[t].state = "returned" }

\* C36 -- Member tasks on activation are submitted exactly once and only
\* after success: there is one add_user_to_group task per member for every
\* closure that has returned and none besides, so an attempt in which the
\* initialization failed submitted none; the tasks follow a closure whose
\* last attempt went through the whole initialization; and a closure whose
\* initialization failed in all 7 attempts has submitted none.
MemberTasksOnlyAfterSuccess ==
  /\ Cardinality(MemberTasks) = NumUsers * Cardinality(ReturnedClosures)
  /\ \A k \in MemberTasks :
       \E t \in ReturnedClosures :
         /\ t < k
         /\ tasks[k].groupid = obj[tasks[t].inst].nextcloud_group_id
         /\ Initialized(tasks[t].issued)
  /\ \A t \in TaskIds :
       (tasks[t].fn = WrapFn /\ tasks[t].state = "raised") =>
         /\ tasks[t].calls = Len(retry_wait) + 1
         /\ \A k \in MemberTasks :
              tasks[k].groupid # obj[tasks[t].inst].nextcloud_group_id

\* One closure gave up after 7 attempts and no addition names its group;
\* another returned after a failed attempt and its members' additions were
\* submitted.
MemberTasksOnlyAfterSuccessWitness ==
  \E t, u \in TaskIds :
    /\ tasks[t].fn = WrapFn
    /\ tasks[t].state = "raised"
    /\ tasks[t].calls = 7
    /\ tasks[u].fn = WrapFn
    /\ tasks[u].state = "returned"
    /\ tasks[u].failed >= 1
    /\ Cardinality(MemberTasks) = NumUsers
    /\ \A k \in MemberTasks :
         tasks[k].groupid = obj[tasks[u].inst].nextcloud_group_id


\* -------------------------------------------- frame of the name generator

\* The request just served was a call of the generator.
GeneratorStep == events' = events + 1 /\ last'.fn = GenFn

\* The field the call was not asked to generate.
OtherField(field) == CHOOSE x \in Fields : x # field

\* The columns of a group row that are not generated names.
PlainColumns == {"name", "type", "cloud_enabled", "nextcloud_groupfolder_id"}

\* What holds of every call, with or without the rename receiver: the rows
\* of the other groups and the plain columns stay, a call that generates
\* nothing or does not save writes nothing, and what it does not save it
\* sets on the instance only.
GeneratorFrame ==
  LET g == last'.group
      field == last'.field
  IN /\ \A h \in Groups \ {g} : db'[h] = db[h]
     /\ \A x \in PlainColumns : db'[g][x] = db[g][x]
     /\ ~last'.save => (db' = db /\ nc' = nc)
     /\ (~last'.save /\ last'.raised = "") =>
          last'.obj = [last'.instance EXCEPT ![field] = last'.ret]
     /\ db'[g][field] \in {db[g][field], last'.ret}

\* C37 as stated -- Frame of the name generator: a call for one field never
\* changes the group's other identifier field nor any other group's record;
\* with save only the target field of that group is persisted, and without
\* save the persisted record is unchanged and only the in-memory value set.
GeneratorFrameStrict ==
  [][GeneratorStep =>
       /\ GeneratorFrame
       /\ db'[last'.group][OtherField(last'.field)] =
            db[last'.group][OtherField(last'.field)]
    ]_vars

\* C37 -- Frame of the name generator: a call for one field never changes
\* another group's record nor any column of the group that is not a
\* generated name; without save the table and the backend are unchanged and
\* only the in-memory value is set; with save the generator persists the
\* target field only, and the other field changes only when it is the
\* folder name and the rename receiver run by that save renamed the folder
\* to it.
GeneratorFrameWithReceiver ==
  [][GeneratorStep =>
       LET g == last'.group
           other == OtherField(last'.field)
       IN /\ GeneratorFrame
          /\ db'[g][other] # db[g][other] =>
               /\ last'.save
               /\ other = "nextcloud_groupfolder_name"
               /\ last'.called_with = db'[g][other]
               /\ last'.result = TRUE
               /\ nc'.folders[db[g].nextcloud_groupfolder_id].mount_point = db'[g][other]
    ]_vars

\* A saving call for the group id has persisted a new id, and the receiver
\* run by its save has renamed the folder.
GeneratorFrameWithReceiverWitness ==
  /\ last.fn = GenFn
  /\ last.field = "nextcloud_group_id"
  /\ last.save
  /\ last.force_generate
  /\ last.row.nextcloud_group_id = last.ret
  /\ last.instance.nextcloud_group_id # last.ret
  /\ last.result = TRUE
  /\ last.row.nextcloud_groupfolder_name = last.called_with
  /\ last.instance.nextcloud_groupfolder_name # last.called_with


\* ------------------------------------------- specification: the read path

\* urllib.parse.quote on the characters of the modelled names: a space
\* becomes %20, letters and digits stay.
RECURSIVE Quote(_)
Quote(s) ==
  IF s = <<>> THEN <<>>
  ELSE (IF Head(s) = " " THEN <<"%", "2", "0">> ELSE <<Head(s)>>) \o Quote(Tail(s))

RECURSIVE Reversed(_)
Reversed(s) == IF s = <<>> THEN <<>> ELSE Append(Reversed(Tail(s)), Head(s))

\* What the admin account's tree may hold: files in the folder of group 1,
\* a file in a folder of no group, and a folder entry (file "").
SearchEntries ==
  { [folder |-> <<"a", "b">>, file |-> <<"f">>],
    [folder |-> <<"a", "b">>, file |-> <<>>],
    [folder |-> <<"b", " ", "d">>, file |-> <<"g">>] }

\* The trees of at most two entries, in the order the backend lists them.
Trees ==
  {<<>>} \cup { <<e>> : e \in SearchEntries }
         \cup { <<e, d>> : e \in SearchEntries, d \in SearchEntries }

\* What may become of the SEARCH request.
SearchAnswers == {"ok", "http_error", "timeout", "connection_error"}

\* The backend's answer to a SEARCH scoped to folder_name (None: the root):
\* the entries below it, their paths percent-encoded.
NcSearch(ncv, folder_name) ==
  LET InScope(e) == folder_name = None \/ e.folder = folder_name
      Href(e) == [root |-> Quote(e.folder), file |-> Quote(e.file)]
      scoped == SelectSeq(ncv.files, InScope)
  IN [k \in DOMAIN scoped |-> Href(scoped[k])]

\* nextcloud.py:91-99
webdav_response_or_raise(r) ==
  IF ~r.ok THEN [raised |-> "HTTPError", text |-> <<>>]
  ELSE [raised |-> "", text |-> r.text]

\* nextcloud.py:284-346: requests.request(..., timeout=timeout) raises when
\* the backend does not answer in time or cannot be reached.
files_search(ncv, folder_name, answer) ==
  IF answer = "timeout" THEN [raised |-> "Timeout", text |-> <<>>]
  ELSE IF answer = "connection_error" THEN [raised |-> "ConnectionError", text |-> <<>>]
  ELSE webdav_response_or_raise([ok |-> answer = "ok",
                                 text |-> NcSearch(ncv, folder_name)])

\* nextcloud.py:393-432: the results in reverse, folders and the paths the
\* filter rejects left out.  roots is the set of root folders the filter
\* lets through, and path_filter tells whether the call passes a filter.
parse_cloud_files_search_response(response_text, path_filter, roots) ==
  LET Kept(h) == h.file # <<>> /\ (path_filter => h.root \in roots)
  IN SelectSeq(Reversed(response_text), Kept)

\* list_group_folder_files without the try of nextcloud.py:351-354.
list_group_folder_files_unguarded(ncv, groupfolder_name, answer) ==
  LET r == files_search(ncv, groupfolder_name, answer)
  IN [raised |-> r.raised,
      ret |-> parse_cloud_files_search_response(r.text, FALSE, {})]

\* nextcloud.py:349-356
list_group_folder_files(ncv, groupfolder_name, answer) ==
  LET r == files_search(ncv, groupfolder_name, answer)
  IN IF r.raised # "" THEN [raised |-> "", ret |-> <<>>]
     ELSE [raised |-> "", ret |-> parse_cloud_files_search_response(r.text, FALSE, {})]

\* nextcloud.py:365-366: the quoted folder names of the user's groups.
user_groupfolder_name_list(dbv, ms, user) ==
  { Quote(dbv[g].nextcloud_groupfolder_name) :
      g \in { h \in Groups : user \in ms[h] /\ Truthy(dbv[h].nextcloud_groupfolder_name) } }

\* nextcloud.py:359-376
list_user_group_folders_files(dbv, ms, ncv, user, answer) ==
  LET r == files_search(ncv, None, answer)
  IN IF r.raised # "" THEN [raised |-> "", ret |-> <<>>]
     ELSE [raised |-> "",
           ret |-> parse_cloud_files_search_response(
                     r.text, TRUE, user_groupfolder_name_list(dbv, ms, user))]

GroupFilesFn == "list_group_folder_files"
UserFilesFn == "list_user_group_folders_files"

\* dashboard.py:38-40: a page lists the newest files of group g, which has
\* a nextcloud_group_id.
ListGroupFiles(g) ==
  /\ events < MaxRequests
  /\ Truthy(db[g].nextcloud_group_id)
  /\ \E answer \in SearchAnswers :
     \E r \in {list_group_folder_files(nc, db[g].nextcloud_group_id, answer)} :
       last' = [fn |-> GroupFilesFn, raised |-> r.raised, ret |-> r.ret,
                answer |-> answer, group |-> g, user |-> 0]
  /\ events' = events + 1
  /\ UNCHANGED <<settings, created, db, obj, members, active, nc, tasks, faults>>

\* A page lists the files of the group folders of user u.
ListUserFiles(u) ==
  /\ events < MaxRequests
  /\ \E answer \in SearchAnswers :
     \E r \in {list_user_group_folders_files(db, members, nc, u, answer)} :
       last' = [fn |-> UserFilesFn, raised |-> r.raised, ret |-> r.ret,
                answer |-> answer, group |-> 0, user |-> u]
  /\ events' = events + 1
  /\ UNCHANGED <<settings, created, db, obj, members, active, nc, tasks, faults>>

\* Group 1 is initialized; the users are members of some groups; the admin
\* account's tree holds some files.
InitRead ==
  /\ settings = [PREFIX_GROUP_FOLDERS |-> FALSE, GROUPFOLDER_QUOTA |-> UnlimitedQuota]
  /\ db = [g \in Groups |-> IF g = 1 THEN InitializedRow(g) ELSE NewRow(g, <<"b">>)]
  /\ obj = db
  /\ members \in [Groups -> SUBSET Users]
  /\ active = Users
  /\ nc \in { [files |-> tree] @@ InitializedBackend : tree \in Trees }
  /\ tasks = <<>>
  /\ faults = 0
  /\ events = 0
  /\ created = {1}
  /\ last = NoCall

NextRead ==
  \/ \E g \in Groups : ListGroupFiles(g)
  \/ \E u \in Users : ListUserFiles(u)

SpecRead == InitRead /\ [][NextRead]_vars

\* C39 -- Read path swallows backend failures: when the search request
\* fails (an HTTP error status, no connection, or a timeout),
\* list_group_folder_files and list_user_group_folders_files return an
\* empty list and raise nothing, and no platform state is changed.
ReadPathSwallowsFailures ==
  [][(events' = events + 1 /\ last'.fn \in {GroupFilesFn, UserFilesFn}) =>
       /\ last'.answer # "ok" => (last'.raised = "" /\ last'.ret = <<>>)
       /\ UNCHANGED <<db, obj, members, active, nc, tasks, created>>
    ]_vars

\* Both functions have met a failed search and returned the empty list, on
\* a tree from which an answered search lists a file.
ReadPathSwallowsFailuresWitness ==
  /\ last.fn = UserFilesFn
  /\ last.answer = "timeout"
  /\ last.raised = ""
  /\ last.ret = <<>>
  /\ list_user_group_folders_files(db, members, nc, last.user, "ok").ret # <<>>
  /\ list_group_folder_files(nc, db[1].nextcloud_group_id, "ok").ret # <<>>

====
